---------------------------- MODULE Spec2Model ----------------------------
(***************************************************************************)
(* Model of the exchange-rate signal engine of TeiNam/exchange_collector:  *)
(*   utils/indicator_calculator.py  IndicatorCalculator (pure functions)   *)
(*   utils/buy_signal_analyzer.py   Signal, BuySignalAnalyzer              *)
(*                                                                         *)
(* Numbers.  The program computes with Python floats.  The model computes  *)
(* with exact reals: a price is an integer, a quotient is a rational in    *)
(* lowest terms, math.sqrt is kept symbolic (base + coef * sqrt(rad)) and  *)
(* compared by squaring, and an RSI value is a mixed number.  Rounding     *)
(* error of the floats is therefore not modelled.                          *)
(*                                                                         *)
(* Exceptions.  A Python call either returns a value or raises; every      *)
(* modelled function returns [kind |-> "None"], [kind |-> "value", ...] or *)
(* [kind |-> "raise", exc |-> ...], and a try/except is an action with one *)
(* disjunct for the normal path and one for the handler.                   *)
(***************************************************************************)
EXTENDS Integers, Sequences, FiniteSets, TLC

(***************************************************************************)
(* Python values and built-ins                                             *)
(***************************************************************************)
None == [kind |-> "None"]

Val(v) == [kind |-> "value", value |-> v]

Raise(e) == [kind |-> "raise", exc |-> e]

IsNone(r) == r.kind = "None"

IsVal(r) == r.kind = "value"

IsRaise(r) == r.kind = "raise"

Abs(x) == IF x < 0 THEN -x ELSE x

Max2(a, b) == IF a >= b THEN a ELSE b

Min2(a, b) == IF a <= b THEN a ELSE b

RECURSIVE Gcd(_, _)
Gcd(a, b) == IF b = 0 THEN Abs(a) ELSE Gcd(b, a % Abs(b))

RECURSIVE SumRange(_, _, _)
\* xs[lo] + ... + xs[hi], by halving (the evaluation stays shallow)
SumRange(xs, lo, hi) ==
    IF lo > hi THEN 0
    ELSE IF lo = hi THEN xs[lo]
    ELSE LET mid == (lo + hi) \div 2
         IN  SumRange(xs, lo, mid) + SumRange(xs, mid + 1, hi)

\* sum(xs) of a list of integers
Sum(xs) == SumRange(xs, 1, Len(xs))

\* min(xs) of a non-empty list
SeqMin(xs) == CHOOSE m \in {xs[i] : i \in 1..Len(xs)} :
                  \A i \in 1..Len(xs) : m <= xs[i]

\* min(xs): ValueError on the empty list
PyMin(xs) == IF xs = <<>> THEN Raise("ValueError") ELSE Val(SeqMin(xs))

\* xs[start:] with Python's index rules (negative start counts from the end,
\* out-of-range bounds are clamped, -0 is 0)
SliceFrom(xs, start) ==
    LET n == Len(xs)
        s == IF start < 0 THEN Max2(n + start, 0) ELSE Min2(start, n)
    IN  SubSeq(xs, s + 1, n)

\* xs[:stop]
SliceTo(xs, stop) ==
    LET n == Len(xs)
        e == IF stop < 0 THEN Max2(n + stop, 0) ELSE Min2(stop, n)
    IN  SubSeq(xs, 1, e)

\* reversed(xs)
Reversed(xs) == [i \in 1..Len(xs) |-> xs[Len(xs) + 1 - i]]

(***************************************************************************)
(* Exact rationals [num, den], den > 0, in lowest terms                    *)
(***************************************************************************)
Rat(n, d) ==
    LET g == Gcd(n, d)
        s == IF d < 0 THEN -1 ELSE 1
    IN  [num |-> s * (n \div g), den |-> s * (d \div g)]

RatOfInt(n) == [num |-> n, den |-> 1]

RECURSIVE FracLe(_, _, _, _)
\* a/b <= c/d for b, d > 0, by continued fractions (no products are formed)
FracLe(a, b, c, d) ==
    LET q1 == a \div b
        q2 == c \div d
        r1 == a % b
        r2 == c % d
    IN  IF q1 # q2 THEN q1 < q2
        ELSE IF r1 = 0 THEN TRUE
        ELSE IF r2 = 0 THEN FALSE
        ELSE FracLe(d, r2, b, r1)

RatLe(x, y) == FracLe(x.num, x.den, y.num, y.den)

RatLt(x, y) == ~RatLe(y, x)

RatGe(x, y) == RatLe(y, x)

RatNeg(x) == [num |-> -x.num, den |-> x.den]

RatAdd(x, y) ==
    LET g == Gcd(x.den, y.den)
        l == (x.den \div g) * y.den
    IN  Rat(x.num * (l \div x.den) + y.num * (l \div y.den), l)

RatSub(x, y) == RatAdd(x, RatNeg(y))

RatMul(x, y) ==
    LET g1 == Gcd(x.num, y.den)
        g2 == Gcd(y.num, x.den)
    IN  IF x.num = 0 \/ y.num = 0 THEN RatOfInt(0)
        ELSE Rat((x.num \div g1) * (y.num \div g2),
                 (x.den \div g2) * (y.den \div g1))

\* x / y for y # 0
RatDiv(x, y) == RatMul(x, Rat(y.den, y.num))

\* Python's x / y on numbers: ZeroDivisionError when y is zero
PyDiv(x, y) ==
    IF y.num = 0 THEN Raise("ZeroDivisionError") ELSE Val(RatDiv(x, y))

RECURSIVE RatSumRange(_, _, _)
RatSumRange(xs, lo, hi) ==
    IF lo > hi THEN RatOfInt(0)
    ELSE IF lo = hi THEN xs[lo]
    ELSE LET mid == (lo + hi) \div 2
         IN  RatAdd(RatSumRange(xs, lo, mid), RatSumRange(xs, mid + 1, hi))

\* sum(xs) of a list of rationals
RatSum(xs) == RatSumRange(xs, 1, Len(xs))

(***************************************************************************)
(* Mixed numbers [whole, num, den]: whole + num/den, 0 <= num < den, in    *)
(* lowest terms (den = 1 when num = 0)                                     *)
(***************************************************************************)
Mixed(w, n, d) ==
    LET g == Gcd(n, d)
    IN  [whole |-> w, num |-> n \div g, den |-> d \div g]

MixedOfInt(k) == [whole |-> k, num |-> 0, den |-> 1]

RECURSIVE MulFrac(_, _, _)
\* k * (n/d) for k >= 0 and 0 <= n <= d, as <<whole, remainder over d>>,
\* by doubling (no product larger than 2 * d is formed)
MulFrac(k, n, d) ==
    IF k = 0 THEN <<0, 0>>
    ELSE LET h == MulFrac(k \div 2, n, d)
             dbl == <<2 * h[1] + ((2 * h[2]) \div d), (2 * h[2]) % d>>
         IN  IF k % 2 = 0 THEN dbl
             ELSE <<dbl[1] + ((dbl[2] + n) \div d), (dbl[2] + n) % d>>

\* k / x for an integer k >= 0 and a rational x >= 1
IntDivRat(k, x) ==
    LET m == MulFrac(k, x.den, x.num)
    IN  Mixed(m[1], m[2], x.num)

\* k - m for an integer k
IntMinusMixed(k, m) ==
    IF m.num = 0 THEN MixedOfInt(k - m.whole)
    ELSE Mixed(k - m.whole - 1, m.den - m.num, m.den)

MixedLeInt(m, k) == m.whole < k \/ (m.whole = k /\ m.num = 0)

MixedGeInt(m, k) == m.whole >= k

(***************************************************************************)
(* Symbolic square roots: base + coef * sqrt(rad), rad >= 0                *)
(***************************************************************************)
Surd(b, c, r) == [base |-> b, coef |-> c, rad |-> r]

RatSq(x) == RatMul(x, x)

\* t <= base + coef * sqrt(rad) for a rational t
RatLeSurd(t, s) ==
    LET d == RatSub(t, s.base)
        c2r == RatMul(RatOfInt(s.coef * s.coef), s.rad)
    IN  IF s.coef >= 0
        THEN d.num <= 0 \/ RatLe(RatSq(d), c2r)
        ELSE d.num <= 0 /\ RatLe(c2r, RatSq(d))

\* t >= base + coef * sqrt(rad) for a rational t
RatGeSurd(t, s) ==
    LET d == RatSub(t, s.base)
        c2r == RatMul(RatOfInt(s.coef * s.coef), s.rad)
    IN  IF s.coef >= 0
        THEN d.num >= 0 /\ RatLe(c2r, RatSq(d))
        ELSE d.num >= 0 \/ RatLe(RatSq(d), c2r)

(***************************************************************************)
(* IndicatorCalculator                                                     *)
(***************************************************************************)
\* variant: the mean of the first period prices
moving_average_of_first(prices, period) ==
    IF Len(prices) < period \/ period <= 0 THEN None
    ELSE PyDiv(RatOfInt(Sum(SliceTo(prices, period))), RatOfInt(period))

\* variant: the guard forgets period <= 0
moving_average_no_period_guard(prices, period) ==
    IF Len(prices) < period THEN None
    ELSE PyDiv(RatOfInt(Sum(SliceFrom(prices, -period))), RatOfInt(period))

moving_average(prices, period) ==
    IF Len(prices) < period \/ period <= 0 THEN None
    ELSE PyDiv(RatOfInt(Sum(SliceFrom(prices, -period))), RatOfInt(period))

\* the day-over-day changes prices[i] - prices[i-1]
Changes(prices) == [i \in 1..(Len(prices) - 1) |-> prices[i + 1] - prices[i]]

Gain(c) == Max2(c, 0)

Loss(c) == Abs(Min2(c, 0))

RECURSIVE Wilder(_, _, _, _)
\* the smoothing loop of rsi over the changes after the first period ones:
\* avg = (avg * (period - 1) + value) / period, for gain and loss together
Wilder(avg_gain, avg_loss, rest, period) ==
    IF rest = <<>> THEN <<avg_gain, avg_loss>>
    ELSE LET p == RatOfInt(period)
             g == RatDiv(RatAdd(RatMul(avg_gain, RatOfInt(period - 1)),
                                RatOfInt(Gain(Head(rest)))), p)
             l == RatDiv(RatAdd(RatMul(avg_loss, RatOfInt(period - 1)),
                                RatOfInt(Loss(Head(rest)))), p)
         IN  Wilder(g, l, Tail(rest), period)

\* variant: no test of avg_loss == 0 before the division
rsi_no_zero_loss_rule(prices, period) ==
    IF Len(prices) < period + 1 \/ period <= 0 THEN None
    ELSE LET changes == Changes(prices)
             first == SliceTo(changes, period)
             initial_gains == [i \in 1..Len(first) |-> Gain(first[i])]
             initial_losses == [i \in 1..Len(first) |-> Loss(first[i])]
             seed_gain == PyDiv(RatOfInt(Sum(initial_gains)), RatOfInt(period))
             seed_loss == PyDiv(RatOfInt(Sum(initial_losses)), RatOfInt(period))
         IN  IF IsRaise(seed_gain) THEN seed_gain
             ELSE LET avg == Wilder(seed_gain.value, seed_loss.value,
                                    SliceFrom(changes, period), period)
                      avg_gain == avg[1]
                      avg_loss == avg[2]
                      rs == PyDiv(avg_gain, avg_loss)
                  IN  IF IsRaise(rs) THEN rs
                      ELSE LET one_plus_rs == RatAdd(RatOfInt(1), rs.value)
                           IN  Val(IntMinusMixed(100, IntDivRat(100, one_plus_rs)))

\* variant: the quotient is added to 100 instead of subtracted from it
rsi_sign_error(prices, period) ==
    IF Len(prices) < period + 1 \/ period <= 0 THEN None
    ELSE LET changes == Changes(prices)
             first == SliceTo(changes, period)
             initial_gains == [i \in 1..Len(first) |-> Gain(first[i])]
             initial_losses == [i \in 1..Len(first) |-> Loss(first[i])]
             seed_gain == PyDiv(RatOfInt(Sum(initial_gains)), RatOfInt(period))
             seed_loss == PyDiv(RatOfInt(Sum(initial_losses)), RatOfInt(period))
         IN  IF IsRaise(seed_gain) THEN seed_gain
             ELSE LET avg == Wilder(seed_gain.value, seed_loss.value,
                                    SliceFrom(changes, period), period)
                      avg_gain == avg[1]
                      avg_loss == avg[2]
                  IN  IF avg_loss.num = 0 THEN Val(MixedOfInt(100))
                      ELSE LET rs == RatDiv(avg_gain, avg_loss)
                               one_plus_rs == RatAdd(RatOfInt(1), rs)
                               q == IntDivRat(100, one_plus_rs)
                           IN  Val(Mixed(100 + q.whole, q.num, q.den))

\* rsi that accepts a series of period prices, one short of period + 1
rsi_accepts_period_prices(prices, period) ==
    IF Len(prices) < period \/ period <= 0 THEN None
    ELSE LET changes == Changes(prices)
             first == SliceTo(changes, period)
             seed_gain == RatDiv(RatOfInt(Sum([i \in 1..Len(first) |-> Gain(first[i])])),
                                 RatOfInt(period))
             seed_loss == RatDiv(RatOfInt(Sum([i \in 1..Len(first) |-> Loss(first[i])])),
                                 RatOfInt(period))
             avg == Wilder(seed_gain, seed_loss, SliceFrom(changes, period), period)
         IN  IF avg[2].num = 0 THEN Val(MixedOfInt(100))
             ELSE Val(IntMinusMixed(100, IntDivRat(100,
                          RatAdd(RatOfInt(1), RatDiv(avg[1], avg[2])))))

\* rsi with the plain mean of the last period changes in place of the
\* seeded and smoothed averages
rsi_rolling_mean(prices, period) ==
    IF Len(prices) < period + 1 \/ period <= 0 THEN None
    ELSE LET changes == Changes(prices)
             last == SliceFrom(changes, Len(changes) - period)
             avg_gain == RatDiv(RatOfInt(Sum([i \in 1..Len(last) |-> Gain(last[i])])),
                                RatOfInt(period))
             avg_loss == RatDiv(RatOfInt(Sum([i \in 1..Len(last) |-> Loss(last[i])])),
                                RatOfInt(period))
         IN  IF avg_loss.num = 0 THEN Val(MixedOfInt(100))
             ELSE LET rs == RatDiv(avg_gain, avg_loss)
                      one_plus_rs == RatAdd(RatOfInt(1), rs)
                  IN  Val(IntMinusMixed(100, IntDivRat(100, one_plus_rs)))

rsi(prices, period) ==
    IF Len(prices) < period + 1 \/ period <= 0 THEN None
    ELSE LET changes == Changes(prices)
             first == SliceTo(changes, period)
             initial_gains == [i \in 1..Len(first) |-> Gain(first[i])]
             initial_losses == [i \in 1..Len(first) |-> Loss(first[i])]
             seed_gain == PyDiv(RatOfInt(Sum(initial_gains)), RatOfInt(period))
             seed_loss == PyDiv(RatOfInt(Sum(initial_losses)), RatOfInt(period))
         IN  IF IsRaise(seed_gain) THEN seed_gain
             ELSE LET avg == Wilder(seed_gain.value, seed_loss.value,
                                    SliceFrom(changes, period), period)
                      avg_gain == avg[1]
                      avg_loss == avg[2]
                  IN  IF avg_loss.num = 0 THEN Val(MixedOfInt(100))
                      ELSE LET rs == RatDiv(avg_gain, avg_loss)
                               one_plus_rs == RatAdd(RatOfInt(1), rs)
                           IN  Val(IntMinusMixed(100, IntDivRat(100, one_plus_rs)))

bollinger_bands(prices, period, num_std) ==
    IF Len(prices) < period \/ period <= 0 THEN None
    ELSE LET recent_prices == SliceFrom(prices, -period)
             mid == PyDiv(RatOfInt(Sum(recent_prices)), RatOfInt(period))
         IN  IF IsRaise(mid) THEN mid
             ELSE LET middle == mid.value
                      sq == [i \in 1..Len(recent_prices) |->
                               RatSq(RatSub(RatOfInt(recent_prices[i]), middle))]
                      variance == RatDiv(RatSum(sq), RatOfInt(period))
                      upper == Surd(middle, num_std, variance)
                      lower == Surd(middle, -num_std, variance)
                  IN  Val(<<upper, middle, lower>>)

\* variant: the low of the last min_days prices only
find_n_week_low_window(prices, min_days) ==
    IF Len(prices) < min_days THEN None
    ELSE LET lowest == PyMin(SliceFrom(prices, -min_days))
             num_days == Len(prices)
         IN  IF IsRaise(lowest) THEN lowest
             ELSE Val(<<lowest.value, num_days>>)

find_n_week_low(prices, min_days) ==
    IF Len(prices) < min_days THEN None
    ELSE LET lowest == PyMin(prices)
             num_days == Len(prices)
         IN  IF IsRaise(lowest) THEN lowest
             ELSE Val(<<lowest.value, num_days>>)

\* variant: the previous day's averages are taken over the full list
detect_ma_cross_same_day(prices, short_period, long_period) ==
    IF Len(prices) < long_period + 1 \/ short_period <= 0 \/ long_period <= 0
    THEN None
    ELSE IF short_period >= long_period THEN None
    ELSE LET today_short_ma == PyDiv(RatOfInt(Sum(SliceFrom(prices, -short_period))),
                                     RatOfInt(short_period))
             today_long_ma == PyDiv(RatOfInt(Sum(SliceFrom(prices, -long_period))),
                                    RatOfInt(long_period))
             prev_prices == prices
             prev_short_ma == PyDiv(RatOfInt(Sum(SliceFrom(prev_prices, -short_period))),
                                    RatOfInt(short_period))
             prev_long_ma == PyDiv(RatOfInt(Sum(SliceFrom(prev_prices, -long_period))),
                                   RatOfInt(long_period))
         IN  IF IsRaise(today_short_ma) THEN today_short_ma
             ELSE IF IsRaise(today_long_ma) THEN today_long_ma
             ELSE IF RatLt(prev_short_ma.value, prev_long_ma.value)
                     /\ RatGe(today_short_ma.value, today_long_ma.value)
             THEN Val("golden_cross")
             ELSE IF RatGe(prev_short_ma.value, prev_long_ma.value)
                     /\ RatLt(today_short_ma.value, today_long_ma.value)
             THEN Val("dead_cross")
             ELSE None

detect_ma_cross(prices, short_period, long_period) ==
    IF Len(prices) < long_period + 1 \/ short_period <= 0 \/ long_period <= 0
    THEN None
    ELSE IF short_period >= long_period THEN None
    ELSE LET today_short_ma == PyDiv(RatOfInt(Sum(SliceFrom(prices, -short_period))),
                                     RatOfInt(short_period))
             today_long_ma == PyDiv(RatOfInt(Sum(SliceFrom(prices, -long_period))),
                                    RatOfInt(long_period))
             prev_prices == SliceTo(prices, -1)
             prev_short_ma == PyDiv(RatOfInt(Sum(SliceFrom(prev_prices, -short_period))),
                                    RatOfInt(short_period))
             prev_long_ma == PyDiv(RatOfInt(Sum(SliceFrom(prev_prices, -long_period))),
                                   RatOfInt(long_period))
         IN  IF IsRaise(today_short_ma) THEN today_short_ma
             ELSE IF IsRaise(today_long_ma) THEN today_long_ma
             ELSE IF RatLt(prev_short_ma.value, prev_long_ma.value)
                     /\ RatGe(today_short_ma.value, today_long_ma.value)
             THEN Val("golden_cross")
             ELSE IF RatGe(prev_short_ma.value, prev_long_ma.value)
                     /\ RatLt(today_short_ma.value, today_long_ma.value)
             THEN Val("dead_cross")
             ELSE None

(***************************************************************************)
(* Number formatting of the f-strings                                      *)
(***************************************************************************)
\* f"{m:.1f}" of a mixed number m >= 0: the number of tenths, ties to even
FormatF1(m) ==
    LET t == MulFrac(10, m.num, m.den)
        tenths == 10 * m.whole + t[1]
    IN  IF 2 * t[2] > m.den THEN tenths + 1
        ELSE IF 2 * t[2] = m.den /\ tenths % 2 = 1 THEN tenths + 1
        ELSE tenths

RECURSIVE ISqrtIn(_, _, _)
\* the r in lo..hi-1 with r*r <= n < (r+1)*(r+1), given lo*lo <= n < hi*hi
ISqrtIn(n, lo, hi) ==
    IF hi - lo <= 1 THEN lo
    ELSE LET mid == (lo + hi) \div 2
         IN  IF mid * mid <= n THEN ISqrtIn(n, mid, hi) ELSE ISqrtIn(n, lo, mid)

ISqrt(n) == ISqrtIn(n, 0, 46340)

RECURSIVE RoundIn(_, _, _)
\* the m in lo..hi-1 with m - 1/2 <= 100 * s < m + 1/2, given that lo
\* satisfies the left inequality and hi does not
RoundIn(s, lo, hi) ==
    IF hi - lo <= 1 THEN lo
    ELSE LET mid == (lo + hi) \div 2
         IN  IF RatLeSurd(Rat(2 * mid - 1, 200), s)
             THEN RoundIn(s, mid, hi) ELSE RoundIn(s, lo, mid)

\* f"{s:.2f}" of base + coef * sqrt(rad): the number of hundredths
FormatF2(s) ==
    LET r == ISqrt((s.rad.num \div s.rad.den) + 1) + 1
        w == 100 * Abs(s.coef) * r
        b == (100 * s.base.num) \div s.base.den
    IN  RoundIn(s, b - w - 1, b + w + 2)

(***************************************************************************)
(* Signal and BuySignalAnalyzer: constants and the bodies of the four      *)
(* guarded checks of analyze_currency                                      *)
(***************************************************************************)
TARGET_CURRENCIES == <<"USD", "JPY(100)">>

MA_SHORT == 5

MA_LONG == 20

RSI_PERIOD == 14

RSI_OVERSOLD == 30

RSI_OVERBOUGHT == 70

BOLLINGER_PERIOD == 20

BOLLINGER_STD == 2

\* the min_days=10 that analyze_currency passes to find_n_week_low
N_WEEK_LOW_MIN_DAYS == 10

\* the dataclass Signal
Signal(currency, signal_type, message, current_rate, indicator_value) ==
    [currency |-> currency, signal_type |-> signal_type, message |-> message,
     current_rate |-> current_rate, indicator_value |-> indicator_value]

\* a message: the text of the f-string and the numbers formatted into it
Message(text, args) == [text |-> text, args |-> args]

\* indicator_value: None, a price, an RSI value or a band
PriceValue(p) == [kind |-> "price", price |-> p]

RsiValue(m) == [kind |-> "rsi", rsi |-> m]

BandValue(s) == [kind |-> "band", band |-> s]

\* variant: the low is passed where the current rate belongs
NWeekLowCheckRateFromLow(currency, today_rate, rates) ==
    LET low_result == find_n_week_low(rates, N_WEEK_LOW_MIN_DAYS)
    IN  IF IsRaise(low_result) THEN low_result
        ELSE IF IsNone(low_result) THEN Val(<<>>)
        ELSE LET lowest_price == low_result.value[1]
                 num_days == low_result.value[2]
                 weeks == num_days \div 5
             IN  IF today_rate <= lowest_price
                 THEN Val(<<Signal(currency, "n_week_low",
                                   Message("n_week_low", <<weeks, num_days>>),
                                   lowest_price, PriceValue(lowest_price))>>)
                 ELSE Val(<<>>)

\* 1. the N-week-low check: the signals the try block appends, or the
\*    exception it raises
NWeekLowCheck(currency, today_rate, rates) ==
    LET low_result == find_n_week_low(rates, N_WEEK_LOW_MIN_DAYS)
    IN  IF IsRaise(low_result) THEN low_result
        ELSE IF IsNone(low_result) THEN Val(<<>>)
        ELSE LET lowest_price == low_result.value[1]
                 num_days == low_result.value[2]
                 weeks == num_days \div 5
             IN  IF today_rate <= lowest_price
                 THEN Val(<<Signal(currency, "n_week_low",
                                   Message("n_week_low", <<weeks, num_days>>),
                                   today_rate, PriceValue(lowest_price))>>)
                 ELSE Val(<<>>)

\* 2. the MA-cross check
MaCrossCheck(currency, today_rate, rates) ==
    LET ma_cross == detect_ma_cross(rates, MA_SHORT, MA_LONG)
    IN  IF IsRaise(ma_cross) THEN ma_cross
        ELSE IF ma_cross = Val("golden_cross")
        THEN Val(<<Signal(currency, "golden_cross", Message("golden_cross", <<>>),
                          today_rate, None)>>)
        ELSE IF ma_cross = Val("dead_cross")
        THEN Val(<<Signal(currency, "dead_cross", Message("dead_cross", <<>>),
                          today_rate, None)>>)
        ELSE Val(<<>>)

\* variant: strict comparisons with the thresholds
RsiCheckStrict(currency, today_rate, rates) ==
    LET r == rsi(rates, RSI_PERIOD)
    IN  IF IsRaise(r) THEN r
        ELSE IF IsNone(r) THEN Val(<<>>)
        ELSE LET rsi_value == r.value
             IN  IF ~MixedGeInt(rsi_value, RSI_OVERSOLD)
                 THEN Val(<<Signal(currency, "rsi_oversold",
                                   Message("rsi_oversold", <<FormatF1(rsi_value)>>),
                                   today_rate, RsiValue(rsi_value))>>)
                 ELSE IF ~MixedLeInt(rsi_value, RSI_OVERBOUGHT)
                 THEN Val(<<Signal(currency, "rsi_overbought",
                                   Message("rsi_overbought", <<FormatF1(rsi_value)>>),
                                   today_rate, RsiValue(rsi_value))>>)
                 ELSE Val(<<>>)

\* 3. the RSI check
RsiCheck(currency, today_rate, rates) ==
    LET r == rsi(rates, RSI_PERIOD)
    IN  IF IsRaise(r) THEN r
        ELSE IF IsNone(r) THEN Val(<<>>)
        ELSE LET rsi_value == r.value
             IN  IF MixedLeInt(rsi_value, RSI_OVERSOLD)
                 THEN Val(<<Signal(currency, "rsi_oversold",
                                   Message("rsi_oversold", <<FormatF1(rsi_value)>>),
                                   today_rate, RsiValue(rsi_value))>>)
                 ELSE IF MixedGeInt(rsi_value, RSI_OVERBOUGHT)
                 THEN Val(<<Signal(currency, "rsi_overbought",
                                   Message("rsi_overbought", <<FormatF1(rsi_value)>>),
                                   today_rate, RsiValue(rsi_value))>>)
                 ELSE Val(<<>>)

\* variant: the upper band is tested before the lower one
BollingerCheckUpperFirst(currency, today_rate, rates) ==
    LET bb_result == bollinger_bands(rates, BOLLINGER_PERIOD, BOLLINGER_STD)
    IN  IF IsRaise(bb_result) THEN bb_result
        ELSE IF IsNone(bb_result) THEN Val(<<>>)
        ELSE LET upper == bb_result.value[1]
                 lower == bb_result.value[3]
             IN  IF RatGeSurd(RatOfInt(today_rate), upper)
                 THEN Val(<<Signal(currency, "bollinger_high",
                                   Message("bollinger_high", <<FormatF2(upper)>>),
                                   today_rate, BandValue(upper))>>)
                 ELSE IF RatLeSurd(RatOfInt(today_rate), lower)
                 THEN Val(<<Signal(currency, "bollinger_low",
                                   Message("bollinger_low", <<FormatF2(lower)>>),
                                   today_rate, BandValue(lower))>>)
                 ELSE Val(<<>>)

\* 4. the Bollinger check
BollingerCheck(currency, today_rate, rates) ==
    LET bb_result == bollinger_bands(rates, BOLLINGER_PERIOD, BOLLINGER_STD)
    IN  IF IsRaise(bb_result) THEN bb_result
        ELSE IF IsNone(bb_result) THEN Val(<<>>)
        ELSE LET upper == bb_result.value[1]
                 lower == bb_result.value[3]
             IN  IF RatLeSurd(RatOfInt(today_rate), lower)
                 THEN Val(<<Signal(currency, "bollinger_low",
                                   Message("bollinger_low", <<FormatF2(lower)>>),
                                   today_rate, BandValue(lower))>>)
                 ELSE IF RatGeSurd(RatOfInt(today_rate), upper)
                 THEN Val(<<Signal(currency, "bollinger_high",
                                   Message("bollinger_high", <<FormatF2(upper)>>),
                                   today_rate, BandValue(upper))>>)
                 ELSE Val(<<>>)

\* the checks in the order analyze_currency runs them
CHECKS == <<"n_week_low", "ma_cross", "rsi", "bollinger">>

CheckResult(check, currency, today_rate, rates) ==
    CASE check = "n_week_low" -> NWeekLowCheck(currency, today_rate, rates)
      [] check = "ma_cross" -> MaCrossCheck(currency, today_rate, rates)
      [] check = "rsi" -> RsiCheck(currency, today_rate, rates)
      [] check = "bollinger" -> BollingerCheck(currency, today_rate, rates)

(***************************************************************************)
(* Python dict today_rates: an insertion-ordered list of <<key, value>>    *)
(***************************************************************************)
Keys(d) == {d[i][1] : i \in 1..Len(d)}

\* key in d
HasKey(d, k) == k \in Keys(d)

\* d[key]: KeyError when the key is absent
GetItem(d, k) ==
    IF ~HasKey(d, k) THEN Raise("KeyError")
    ELSE Val(d[CHOOSE i \in 1..Len(d) : d[i][1] = k][2])

(***************************************************************************)
(* Bounds and inputs                                                       *)
(***************************************************************************)
\* largest day-over-day step of the generated ramps
MaxStep == 2

\* most exceptions injected into one top-level call
MaxFaults == 2

\* longest price list and largest price given to the calculator directly
MaxLen == 4

MaxPrice == 3

CURRENCIES == {"USD", "JPY(100)", "EUR"}

Flat(n, v) == [i \in 1..n |-> v]

Ramp(n, v, step) == [i \in 1..n |-> v + step * (i - 1)]

\* the 21-point series of the end-to-end example
Example21 ==
    <<1420, 1415, 1410, 1405, 1400, 1410, 1415, 1420, 1425, 1430, 1425,
      1420, 1415, 1410, 1405, 1410, 1415, 1420, 1425, 1430, 1425>>

\* numbers of rows the table may hold for a currency
HistoryLens == {0, 9, 10, 14, 15, 19, 20, 21}

SpecialHistories ==
    { Example21,
      <<1, 2000>> \o Example21,
      Flat(15, 1400) \o Flat(5, 1399) \o <<1408>>,
      Flat(15, 1400) \o Flat(5, 1401) \o <<1392>>,
      Flat(13, 1410) \o <<1413, 1406>>,
      Flat(13, 1410) \o <<1407, 1414>>,
      Flat(13, 1410) \o <<1405, 1410>>,
      Flat(10, 1398) \o Flat(10, 1402),
      Flat(3, 1390) \o Flat(10, 1398) \o Flat(10, 1402) }

Histories ==
    SpecialHistories
    \cup {Flat(n, 1400) : n \in HistoryLens}
    \cup {Ramp(n, 1400, k) : n \in HistoryLens \ {0}, k \in 1..MaxStep}
    \cup {Ramp(n, 1440, -k) : n \in HistoryLens \ {0}, k \in 1..MaxStep}

\* today's rates offered to analyze_currency
TodayRates == {1395, 1396, 1399, 1400, 1401, 1404, 1434}

\* the arguments offered to analyze: every ordering of every set of keys,
\* with one or two rates for a tracked currency
RatesOf(k) ==
    CASE k = "USD" -> {1395, 1400}
      [] k = "JPY(100)" -> {1399, 1434}
      [] OTHER -> {1400}

RECURSIVE DictsOver(_)
\* the dicts whose key set is ks, in every insertion order
DictsOver(ks) ==
    IF ks = {} THEN {<<>>}
    ELSE UNION {{<<<<k, r>>>> \o d : r \in RatesOf(k), d \in DictsOver(ks \ {k})} : k \in ks}

TodayRatesArgs == UNION {DictsOver(ks) : ks \in SUBSET CURRENCIES}

\* the table contents analyze is run against
AnalyzeTables ==
    { [c \in CURRENCIES |-> CASE c = "USD" -> Example21
                              [] c = "JPY(100)" -> Flat(21, 1400)
                              [] OTHER -> Flat(21, 1400)],
      [c \in CURRENCIES |-> CASE c = "USD" -> Flat(15, 1400) \o Flat(5, 1399) \o <<1408>>
                              [] c = "JPY(100)" -> Ramp(15, 1440, -MaxStep)
                              [] OTHER -> <<>>],
      [c \in CURRENCIES |-> CASE c = "USD" -> Flat(9, 1400)
                              [] c = "JPY(100)" -> <<1, 2000>> \o Example21
                              [] OTHER -> Flat(10, 1400)],
      \* both tracked currencies with a history on which all four checks fire
      [c \in CURRENCIES |-> CASE c = "USD" -> Flat(15, 1400) \o Flat(5, 1399) \o <<1408>>
                              [] c = "JPY(100)" -> Flat(15, 1404) \o Flat(5, 1403) \o <<1412>>
                              [] OTHER -> <<>>] }

\* the table contents analyze_currency is run against: one history, the same
\* for every currency
CurrencyTables == {[c \in CURRENCIES |-> h] : h \in Histories}

\* the price lists given to the calculator directly
PriceLists == UNION {[1..n -> 1..MaxPrice] : n \in 0..MaxLen}

PeriodArgs == -1..MaxLen

(***************************************************************************)
(* State                                                                   *)
(***************************************************************************)
VARIABLES
    db,           \* table exchange_rates: per currency the deal_bas_r column,
                  \* oldest search_date first
    pc,           \* where the running call stands
    entry,        \* the method the caller invoked
    today_rates,  \* analyze: the argument
    idx,          \* analyze: position of the for loop
    all_signals,  \* analyze: the local list
    currency,     \* analyze_currency: the argument
    today_rate,   \* analyze_currency: the argument
    rates,        \* analyze_currency: the local list
    signals,      \* analyze_currency: the local list
    result,       \* what the invoked method returned or raised to its caller
    queries,      \* log: the get_recent_rates calls made, in order
    raised,       \* log: <<currency, place>> of every exception raised
    returned,     \* log: per currency, what analyze_currency returned
    calc          \* a direct call of an IndicatorCalculator function

vars == <<db, pc, entry, today_rates, idx, all_signals, currency, today_rate,
          rates, signals, result, queries, raised, returned, calc>>

analyzerVars == <<db, pc, entry, today_rates, idx, all_signals, currency,
                  today_rate, rates, signals, result, queries, raised, returned>>

NotCalled == [kind |-> "not called"]

\* the state of a fresh analyzer before any call
Idle ==
    /\ pc = "idle"
    /\ entry = "none"
    /\ today_rates = <<>>
    /\ idx = 0
    /\ all_signals = <<>>
    /\ currency = ""
    /\ today_rate = 0
    /\ rates = <<>>
    /\ signals = <<>>
    /\ result = NotCalled
    /\ queries = <<>>
    /\ raised = {}
    /\ returned = [c \in CURRENCIES |-> NotCalled]

NoCalc == [fn |-> "none"]

(***************************************************************************)
(* BuySignalAnalyzer.get_recent_rates                                      *)
(***************************************************************************)
\* SELECT deal_bas_r ... WHERE cur_unit = currency ORDER BY search_date DESC
\* LIMIT days, then reversed to oldest first
get_recent_rates(table, cur, days) ==
    LET rows == SliceTo(Reversed(table[cur]), days)
    IN  Reversed(rows)

(***************************************************************************)
(* BuySignalAnalyzer.analyze                                               *)
(***************************************************************************)
\* variant: the loop runs over the keys of the argument
LoopOverKeys(d) == [i \in 1..Len(d) |-> d[i][1]]

\* the currencies the for loop of analyze visits, in order
LoopCurrencies(d) == TARGET_CURRENCIES

\* the caller invokes analyze(d)
CallAnalyze ==
    /\ pc = "idle"
    /\ \E d \in TodayRatesArgs : today_rates' = d
    /\ entry' = "analyze"
    /\ all_signals' = <<>>
    /\ idx' = 1
    /\ pc' = "loop"
    /\ UNCHANGED <<db, currency, today_rate, rates, signals, result, queries,
                   raised, returned, calc>>

\* loop head, currency absent from today_rates: warning and continue
AnalyzeSkip ==
    /\ pc = "loop"
    /\ idx <= Len(LoopCurrencies(today_rates))
    /\ ~HasKey(today_rates, LoopCurrencies(today_rates)[idx])
    /\ idx' = idx + 1
    /\ UNCHANGED <<db, pc, entry, today_rates, all_signals, currency, today_rate,
                   rates, signals, result, queries, raised, returned, calc>>

\* loop head, currency present: today_rate = today_rates[currency] and the
\* call of analyze_currency (its first statement, signals = [], included)
AnalyzeCallCurrency ==
    /\ pc = "loop"
    /\ idx <= Len(LoopCurrencies(today_rates))
    /\ LET c == LoopCurrencies(today_rates)[idx]
           r == GetItem(today_rates, c)
       IN  /\ HasKey(today_rates, c)
           /\ IsVal(r)
           /\ currency' = c
           /\ today_rate' = r.value
    /\ signals' = <<>>
    /\ rates' = <<>>
    /\ pc' = "get_recent_rates"
    /\ UNCHANGED <<db, entry, today_rates, idx, all_signals, result, queries,
                   raised, returned, calc>>

\* variant: the new signals are put in front of the collected ones
AnalyzeExtendInFront ==
    /\ pc = "return"
    /\ entry = "analyze"
    /\ all_signals' = signals \o all_signals
    /\ returned' = [returned EXCEPT ![currency] = Val(signals)]
    /\ idx' = idx + 1
    /\ pc' = "loop"
    /\ UNCHANGED <<db, entry, today_rates, currency, today_rate, rates, signals,
                   result, queries, raised, calc>>

\* analyze_currency returned to analyze: all_signals.extend(signals)
AnalyzeExtend ==
    /\ pc = "return"
    /\ entry = "analyze"
    /\ all_signals' = all_signals \o signals
    /\ returned' = [returned EXCEPT ![currency] = Val(signals)]
    /\ idx' = idx + 1
    /\ pc' = "loop"
    /\ UNCHANGED <<db, entry, today_rates, currency, today_rate, rates, signals,
                   result, queries, raised, calc>>

\* the for loop is exhausted: return all_signals
AnalyzeReturn ==
    /\ pc = "loop"
    /\ idx > Len(LoopCurrencies(today_rates))
    /\ result' = Val(all_signals)
    /\ pc' = "done"
    /\ UNCHANGED <<db, entry, today_rates, idx, all_signals, currency, today_rate,
                   rates, signals, queries, raised, returned, calc>>

(***************************************************************************)
(* BuySignalAnalyzer.analyze_currency                                      *)
(***************************************************************************)
\* the caller invokes analyze_currency(c, t) directly
CallAnalyzeCurrency ==
    /\ pc = "idle"
    /\ \E c \in {TARGET_CURRENCIES[i] : i \in 1..Len(TARGET_CURRENCIES)} :
          currency' = c
    /\ \E t \in TodayRates : today_rate' = t
    /\ entry' = "analyze_currency"
    /\ signals' = <<>>
    /\ rates' = <<>>
    /\ pc' = "get_recent_rates"
    /\ UNCHANGED <<db, today_rates, idx, all_signals, result, queries, raised,
                   returned, calc>>

\* variant: analyze without its try block, the exception reaches the caller
PropagateToCaller(e) ==
    /\ result' = e
    /\ pc' = "done"
    /\ returned' = [returned EXCEPT ![currency] = e]
    /\ UNCHANGED idx

\* an exception leaves analyze_currency: the except clause of analyze logs it
\* and the loop goes on; a direct caller receives it
Propagate(e) ==
    IF entry = "analyze"
    THEN /\ returned' = [returned EXCEPT ![currency] = e]
         /\ idx' = idx + 1
         /\ pc' = "loop"
         /\ UNCHANGED result
    ELSE /\ result' = e
         /\ pc' = "done"
         /\ UNCHANGED <<returned, idx>>

\* variant: the query sits in a try block of its own, a failure is logged
\* and the checks run on an empty history
GetRecentRatesGuarded ==
    /\ pc = "get_recent_rates"
    /\ queries' = Append(queries, <<currency, MA_LONG + 1>>)
    /\ \/ /\ rates' = get_recent_rates(db, currency, MA_LONG + 1)
          /\ UNCHANGED raised
       \/ /\ Cardinality(raised) < MaxFaults
          /\ raised' = raised \cup {<<currency, "get_recent_rates">>}
          /\ rates' = <<>>
    /\ pc' = CHECKS[1]
    /\ UNCHANGED <<db, entry, today_rates, idx, all_signals, currency, today_rate,
                   signals, result, returned, calc>>

\* rates = self.get_recent_rates(currency, self.MA_LONG + 1), outside every
\* try block of analyze_currency: the rows, or the database's exception
GetRecentRates ==
    /\ pc = "get_recent_rates"
    /\ queries' = Append(queries, <<currency, MA_LONG + 1>>)
    /\ \/ /\ rates' = get_recent_rates(db, currency, MA_LONG + 1)
          /\ pc' = CHECKS[1]
          /\ UNCHANGED <<raised, returned, idx, result>>
       \/ /\ Cardinality(raised) < MaxFaults
          /\ raised' = raised \cup {<<currency, "get_recent_rates">>}
          /\ Propagate(Raise("DatabaseError"))
          /\ UNCHANGED rates
    /\ UNCHANGED <<db, entry, today_rates, all_signals, currency, today_rate,
                   signals, calc>>

\* where control goes after check number k
AfterCheck(k) == IF k < Len(CHECKS) THEN CHECKS[k + 1] ELSE "return"

\* variant: one try block around all four checks, an exception ends them
GuardedCheckOneBlock(k) ==
    /\ pc = CHECKS[k]
    /\ LET r == CheckResult(CHECKS[k], currency, today_rate, rates)
       IN  \/ /\ IsVal(r)
              /\ signals' = signals \o r.value
              /\ UNCHANGED raised
              /\ pc' = AfterCheck(k)
           \/ /\ IsRaise(r) \/ Cardinality(raised) < MaxFaults
              /\ raised' = raised \cup {<<currency, CHECKS[k]>>}
              /\ UNCHANGED signals
              /\ pc' = "return"
    /\ UNCHANGED <<db, entry, today_rates, idx, all_signals, currency, today_rate,
                   rates, result, queries, returned, calc>>

\* variant: the signals of a check are put in front of the earlier ones
GuardedCheckInFront(k) ==
    /\ pc = CHECKS[k]
    /\ LET r == CheckResult(CHECKS[k], currency, today_rate, rates)
       IN  \/ /\ IsVal(r)
              /\ signals' = r.value \o signals
              /\ UNCHANGED raised
           \/ /\ IsRaise(r) \/ Cardinality(raised) < MaxFaults
              /\ raised' = raised \cup {<<currency, CHECKS[k]>>}
              /\ UNCHANGED signals
    /\ pc' = AfterCheck(k)
    /\ UNCHANGED <<db, entry, today_rates, idx, all_signals, currency, today_rate,
                   rates, result, queries, returned, calc>>

\* one try/except block of analyze_currency: the body appends its signals,
\* or an exception (the body's own, or one raised by a broken indicator) is
\* logged by the except clause; either way control reaches the next block
GuardedCheck(k) ==
    /\ pc = CHECKS[k]
    /\ LET r == CheckResult(CHECKS[k], currency, today_rate, rates)
       IN  \/ /\ IsVal(r)
              /\ signals' = signals \o r.value
              /\ UNCHANGED raised
           \/ /\ IsRaise(r) \/ Cardinality(raised) < MaxFaults
              /\ raised' = raised \cup {<<currency, CHECKS[k]>>}
              /\ UNCHANGED signals
    /\ pc' = AfterCheck(k)
    /\ UNCHANGED <<db, entry, today_rates, idx, all_signals, currency, today_rate,
                   rates, result, queries, returned, calc>>

CheckNWeekLow == GuardedCheck(1)

CheckMaCross == GuardedCheck(2)

CheckRsi == GuardedCheck(3)

CheckBollinger == GuardedCheck(4)

\* return signals, to a direct caller
CurrencyReturn ==
    /\ pc = "return"
    /\ entry = "analyze_currency"
    /\ result' = Val(signals)
    /\ returned' = [returned EXCEPT ![currency] = Val(signals)]
    /\ pc' = "done"
    /\ UNCHANGED <<db, entry, today_rates, idx, all_signals, currency, today_rate,
                   rates, signals, queries, raised, calc>>

(***************************************************************************)
(* Direct calls of the IndicatorCalculator functions                       *)
(***************************************************************************)
Call(fn, prices, a, b, out) ==
    [fn |-> fn, prices |-> prices, a |-> a, b |-> b, out |-> out]

CalcMovingAverage ==
    /\ calc.fn = "input"
    /\ \E period \in PeriodArgs :
          calc' = Call("moving_average", calc.prices, period, 0,
                       moving_average(calc.prices, period))
    /\ UNCHANGED analyzerVars

CalcRsi ==
    /\ calc.fn = "input"
    /\ \E period \in PeriodArgs :
          calc' = Call("rsi", calc.prices, period, 0, rsi(calc.prices, period))
    /\ UNCHANGED analyzerVars

CalcBollingerBands ==
    /\ calc.fn = "input"
    /\ \E period \in PeriodArgs :
          calc' = Call("bollinger_bands", calc.prices, period, BOLLINGER_STD,
                       bollinger_bands(calc.prices, period, BOLLINGER_STD))
    /\ UNCHANGED analyzerVars

CalcFindNWeekLow ==
    /\ calc.fn = "input"
    /\ \E min_days \in PeriodArgs :
          calc' = Call("find_n_week_low", calc.prices, min_days, 0,
                       find_n_week_low(calc.prices, min_days))
    /\ UNCHANGED analyzerVars

CalcDetectMaCross ==
    /\ calc.fn = "input"
    /\ \E short_period \in PeriodArgs, long_period \in PeriodArgs :
          calc' = Call("detect_ma_cross", calc.prices, short_period, long_period,
                       detect_ma_cross(calc.prices, short_period, long_period))
    /\ UNCHANGED analyzerVars

(***************************************************************************)
(* Specifications                                                          *)
(***************************************************************************)
\* analyze, on the tables of AnalyzeTables
Init ==
    /\ db \in AnalyzeTables
    /\ Idle
    /\ calc = NoCalc

Next ==
    \/ CallAnalyze
    \/ AnalyzeSkip
    \/ AnalyzeCallCurrency
    \/ GetRecentRates
    \/ CheckNWeekLow
    \/ CheckMaCross
    \/ CheckRsi
    \/ CheckBollinger
    \/ AnalyzeExtend
    \/ AnalyzeReturn

Spec == Init /\ [][Next]_vars

\* analyze_currency called directly, on the tables of CurrencyTables
InitCurrency ==
    /\ db \in CurrencyTables
    /\ Idle
    /\ calc = NoCalc

NextCurrency ==
    \/ CallAnalyzeCurrency
    \/ GetRecentRates
    \/ CheckNWeekLow
    \/ CheckMaCross
    \/ CheckRsi
    \/ CheckBollinger
    \/ CurrencyReturn

SpecCurrency == InitCurrency /\ [][NextCurrency]_vars

\* the calculator functions applied to every short price list
InitCalc ==
    /\ db = [c \in CURRENCIES |-> <<>>]
    /\ Idle
    /\ \E prices \in PriceLists : calc = Call("input", prices, 0, 0, None)

NextCalc ==
    \/ CalcMovingAverage
    \/ CalcRsi
    \/ CalcBollingerBands
    \/ CalcFindNWeekLow
    \/ CalcDetectMaCross

SpecCalc == InitCalc /\ [][NextCalc]_vars

(***************************************************************************)
(* Vocabulary of the properties                                            *)
(***************************************************************************)
\* the signals of sigs that concern currency c, in order
OfCurrency(sigs, c) == SelectSeq(sigs, LAMBDA s : s.currency = c)

\* the signals of sigs of type t, in order
OfType(sigs, t) == SelectSeq(sigs, LAMBDA s : s.signal_type = t)

\* the checks of currency c whose try block caught an exception
FailedChecks(c) == {k \in 1..Len(CHECKS) : <<c, CHECKS[k]>> \in raised}

\* what check k appends when it runs to its end on (c, t, rs)
Contribution(k, c, t, rs) ==
    LET r == CheckResult(CHECKS[k], c, t, rs)
    IN  IF IsVal(r) THEN r.value ELSE <<>>

\* the list analyze_currency(c, t) returns on the history rs when exactly
\* the checks of failed raise
ExpectedSignals(c, t, rs, failed) ==
    LET part(k) == IF k \in failed THEN <<>> ELSE Contribution(k, c, t, rs)
    IN  part(1) \o part(2) \o part(3) \o part(4)

AnalyzeDone == entry = "analyze" /\ pc = "done"

CurrencyDone == entry = "analyze_currency" /\ pc = "done"

ProviderFailed(c) == <<c, "get_recent_rates">> \in raised

(***************************************************************************)
(* C1: per-currency fault isolation in analyze.  When today_rates holds    *)
(* both tracked currencies and the analysis of one of them raised (the     *)
(* first or the second of the loop), analyze returns a list, it does not   *)
(* raise, and the list is exactly what analyze_currency produces for the   *)
(* other tracked currency (nothing, when that one raised as well).         *)
(***************************************************************************)
C1_CurrencyFaultIsolation ==
    (AnalyzeDone /\ {"USD", "JPY(100)"} \subseteq Keys(today_rates)) =>
        \A c \in {"USD", "JPY(100)"} :
            IsRaise(returned[c]) =>
                /\ IsVal(result)
                /\ \A o \in {"USD", "JPY(100)"} \ {c} :
                      result.value =
                          IF IsRaise(returned[o]) THEN <<>>
                          ELSE ExpectedSignals(o, GetItem(today_rates, o).value,
                                               get_recent_rates(db, o, 21),
                                               FailedChecks(o))

\* analyze returned the signals of USD although the analysis of JPY(100),
\* the second of the loop, raised
C1_Witness ==
    /\ AnalyzeDone
    /\ {"USD", "JPY(100)"} \subseteq Keys(today_rates)
    /\ IsRaise(returned["JPY(100)"])
    /\ IsVal(returned["USD"])
    /\ IsVal(result)
    /\ Len(result.value) >= 2

(***************************************************************************)
(* C2: per-indicator fault isolation in analyze_currency.  Once the price  *)
(* history is obtained, analyze_currency returns a list whatever checks    *)
(* raise; a check that raised contributes nothing and every other check    *)
(* contributes exactly what it contributes when it runs to its end.        *)
(***************************************************************************)
C2_IndicatorFaultIsolation ==
    (CurrencyDone /\ ~ProviderFailed(currency)) =>
        /\ IsVal(result)
        /\ result.value = ExpectedSignals(currency, today_rate, rates,
                                          FailedChecks(currency))

\* the N-week-low check raised and the later RSI and Bollinger checks still
\* delivered their signals
C2_Witness ==
    /\ CurrencyDone
    /\ FailedChecks(currency) = {1}
    /\ IsVal(result)
    /\ OfType(result.value, "n_week_low") = <<>>
    /\ OfType(result.value, "rsi_oversold") # <<>>
    /\ OfType(result.value, "bollinger_low") # <<>>

(***************************************************************************)
(* C3: analyze reports only tracked currencies present in its input.  It   *)
(* returns a list, never raises; each signal's currency is USD or JPY(100) *)
(* and a key of today_rates; a tracked currency that is no key is skipped  *)
(* (never analysed); no other key is ever analysed; with no tracked key    *)
(* at all (the empty dict included) the list is empty.                     *)
(***************************************************************************)
C3_OnlyTrackedAndPresent ==
    AnalyzeDone =>
        /\ IsVal(result)
        /\ \A i \in 1..Len(result.value) :
              result.value[i].currency \in {"USD", "JPY(100)"} \cap Keys(today_rates)
        /\ \A c \in CURRENCIES \ ({"USD", "JPY(100)"} \cap Keys(today_rates)) :
              /\ returned[c] = NotCalled
              /\ \A q \in 1..Len(queries) : queries[q][1] # c
        /\ ({"USD", "JPY(100)"} \cap Keys(today_rates) = {}) => result = Val(<<>>)

\* today_rates = {EUR, USD}, EUR first, the table has rows for EUR, and the
\* result holds signals (all of them of USD)
C3_Witness ==
    /\ AnalyzeDone
    /\ Len(today_rates) = 2
    /\ today_rates[1][1] = "EUR"
    /\ today_rates[2][1] = "USD"
    /\ Len(db["EUR"]) >= 20
    /\ IsVal(result)
    /\ result.value # <<>>

(***************************************************************************)
(* C4: result ordering of analyze.  The returned list is the list          *)
(* analyze_currency returned for USD followed by the one it returned for   *)
(* JPY(100) (nothing for a currency skipped or failed), so no JPY(100)     *)
(* signal precedes a USD signal, whatever the key order of today_rates.    *)
(***************************************************************************)
C4_ResultOrdering ==
    AnalyzeDone =>
        LET part(c) == IF IsVal(returned[c]) THEN returned[c].value ELSE <<>>
        IN  /\ IsVal(result)
            /\ result.value = part("USD") \o part("JPY(100)")
            /\ \A i, j \in 1..Len(result.value) :
                  (result.value[i].currency = "JPY(100)"
                   /\ result.value[j].currency = "USD") => j < i

\* today_rates lists JPY(100) before USD and the result holds signals of both
C4_Witness ==
    /\ AnalyzeDone
    /\ Len(today_rates) >= 2
    /\ today_rates[1][1] = "JPY(100)"
    /\ IsVal(result)
    /\ OfCurrency(result.value, "USD") # <<>>
    /\ OfCurrency(result.value, "JPY(100)") # <<>>

(***************************************************************************)
(* C5: every signal analyze_currency(currency, today_rate) builds has      *)
(* that currency and current_rate = today_rate; so in the list analyze     *)
(* returns every signal's current_rate is today_rates[its currency], and   *)
(* signals of one currency agree on current_rate.                          *)
(***************************************************************************)
C5_CurrencyAndRateOfSignals ==
    /\ \A i \in 1..Len(signals) :
          signals[i].currency = currency /\ signals[i].current_rate = today_rate
    /\ (AnalyzeDone /\ IsVal(result)) =>
          /\ \A i \in 1..Len(result.value) :
                /\ HasKey(today_rates, result.value[i].currency)
                /\ result.value[i].current_rate =
                       GetItem(today_rates, result.value[i].currency).value
          /\ \A i, j \in 1..Len(result.value) :
                result.value[i].currency = result.value[j].currency =>
                    result.value[i].current_rate = result.value[j].current_rate

\* a result with two signals of USD and two of JPY(100), at different rates
C5_Witness ==
    /\ AnalyzeDone
    /\ IsVal(result)
    /\ Len(OfCurrency(result.value, "USD")) >= 2
    /\ Len(OfCurrency(result.value, "JPY(100)")) >= 2
    /\ GetItem(today_rates, "USD") # GetItem(today_rates, "JPY(100)")

\* analyze_currency, called directly, obtained the history and is past its
\* check number k, which raised nothing
PastCheck(k) ==
    /\ entry = "analyze_currency"
    /\ ~ProviderFailed(currency)
    /\ k \notin FailedChecks(currency)
    /\ pc \in {CHECKS[j] : j \in (k + 1)..Len(CHECKS)} \cup {"return", "done"}

(***************************************************************************)
(* C6: the N-week-low rule of analyze_currency.  An n_week_low signal is   *)
(* emitted if and only if the provider returned at least 10 observations   *)
(* and today_rate <= every one of them (that is, <= their minimum); its    *)
(* indicator_value is that minimum and its message names count // 5 weeks  *)
(* and count business days.  On the 21-point example series (minimum       *)
(* 1400) and today_rate 1395 the signal has indicator_value 1400.          *)
(***************************************************************************)
C6_NWeekLowRule ==
    PastCheck(1) =>
        LET lows == OfType(signals, "n_week_low")
            n == Len(rates)
        IN  /\ rates = get_recent_rates(db, currency, 21)
            /\ Len(lows) <= 1
            /\ (Len(lows) = 1) <=>
                  (n >= 10 /\ \A j \in 1..n : today_rate <= rates[j])
            /\ (Len(lows) = 1) =>
                  /\ \E j \in 1..n :
                        /\ \A i \in 1..n : rates[j] <= rates[i]
                        /\ lows[1].indicator_value = PriceValue(rates[j])
                  /\ lows[1].message = Message("n_week_low", <<n \div 5, n>>)
            /\ (rates = Example21 /\ today_rate = 1395) =>
                  /\ Len(lows) = 1
                  /\ lows[1].indicator_value = PriceValue(1400)

\* the example: the 21-point series, today_rate 1395, n_week_low with
\* indicator_value 1400 and "4 weeks (21 business days)"
C6_Witness ==
    /\ CurrencyDone
    /\ PastCheck(1)
    /\ rates = Example21
    /\ today_rate = 1395
    /\ IsVal(result)
    /\ Len(OfType(result.value, "n_week_low")) = 1
    /\ OfType(result.value, "n_week_low")[1].indicator_value = PriceValue(1400)
    /\ OfType(result.value, "n_week_low")[1].message.args = <<4, 21>>

(***************************************************************************)
(* C7: the RSI threshold rule of analyze_currency.  When RSI(14) is        *)
(* computable (15 observations or more), rsi_oversold is emitted if and    *)
(* only if RSI <= 30, rsi_overbought if and only if RSI >= 70, an RSI      *)
(* strictly between emits neither, and the emitted signal's                *)
(* indicator_value is the RSI value.                                       *)
(***************************************************************************)
C7_RsiThresholdRule ==
    (PastCheck(3) /\ Len(rates) >= 15) =>
        LET r == rsi(rates, 14)
            oversold == OfType(signals, "rsi_oversold")
            overbought == OfType(signals, "rsi_overbought")
        IN  /\ IsVal(r)
            /\ Len(oversold) <= 1
            /\ Len(overbought) <= 1
            /\ (Len(oversold) = 1) <=>
                  (r.value.whole < 30 \/ (r.value.whole = 30 /\ r.value.num = 0))
            /\ (Len(overbought) = 1) <=> (r.value.whole >= 70)
            /\ \A s \in {signals[i] : i \in 1..Len(signals)} :
                  s.signal_type \in {"rsi_oversold", "rsi_overbought"} =>
                      s.indicator_value = RsiValue(r.value)

\* an RSI of exactly 30 and the rsi_oversold signal carrying it
C7_Witness ==
    /\ CurrencyDone
    /\ PastCheck(3)
    /\ Len(rates) >= 15
    /\ rsi(rates, 14) = Val(MixedOfInt(30))
    /\ IsVal(result)
    /\ Len(OfType(result.value, "rsi_oversold")) = 1
    /\ OfType(result.value, "rsi_oversold")[1].indicator_value = RsiValue(MixedOfInt(30))

\* the bands of the history, and where today_rate lies
Bands == bollinger_bands(rates, 20, 2).value

AtOrBelowLower == RatLeSurd(RatOfInt(today_rate), Bands[3])

AtOrAboveUpper == RatGeSurd(RatOfInt(today_rate), Bands[1])

BollingerLowEmitted ==
    /\ Len(OfType(signals, "bollinger_low")) = 1
    /\ OfType(signals, "bollinger_low")[1].indicator_value = BandValue(Bands[3])

BollingerHighEmitted ==
    /\ Len(OfType(signals, "bollinger_high")) = 1
    /\ OfType(signals, "bollinger_high")[1].indicator_value = BandValue(Bands[1])

NoBollingerSignal ==
    /\ OfType(signals, "bollinger_low") = <<>>
    /\ OfType(signals, "bollinger_high") = <<>>

(***************************************************************************)
(* C8, as stated: when the bands are computable (20 observations or more), *)
(* bollinger_low with indicator_value = lower band is emitted whenever     *)
(* today_rate <= lower band, bollinger_high with indicator_value = upper   *)
(* band whenever today_rate >= upper band, and a rate strictly inside the  *)
(* band emits no Bollinger signal.                                         *)
(***************************************************************************)
C8_BollingerRuleAsStated ==
    (PastCheck(4) /\ Len(rates) >= 20) =>
        /\ AtOrBelowLower => BollingerLowEmitted
        /\ AtOrAboveUpper => BollingerHighEmitted
        /\ (~AtOrBelowLower /\ ~AtOrAboveUpper) => NoBollingerSignal

(***************************************************************************)
(* C8, amended: when the bands are computable, bollinger_low with          *)
(* indicator_value = lower band is emitted whenever today_rate <= lower    *)
(* band and then no bollinger_high is; bollinger_high with indicator_value *)
(* = upper band is emitted whenever today_rate >= upper band and           *)
(* today_rate > lower band; a rate strictly inside the band emits no       *)
(* Bollinger signal.                                                       *)
(***************************************************************************)
C8_BollingerRule ==
    (PastCheck(4) /\ Len(rates) >= 20) =>
        /\ AtOrBelowLower =>
              BollingerLowEmitted /\ OfType(signals, "bollinger_high") = <<>>
        /\ (AtOrAboveUpper /\ ~AtOrBelowLower) =>
              BollingerHighEmitted /\ OfType(signals, "bollinger_low") = <<>>
        /\ (~AtOrBelowLower /\ ~AtOrAboveUpper) => NoBollingerSignal

\* a band of zero width with today_rate on it: bollinger_low alone
C8_Witness ==
    /\ CurrencyDone
    /\ PastCheck(4)
    /\ Len(rates) >= 20
    /\ AtOrBelowLower
    /\ AtOrAboveUpper
    /\ BollingerLowEmitted
    /\ OfType(signals, "bollinger_high") = <<>>

\* the sum of the last n elements of xs
SumOfLast(xs, n) ==
    LET last == SubSeq(xs, Len(xs) - n + 1, Len(xs))
    IN  IF n = 0 THEN 0 ELSE Sum(last)

\* mean of the last a elements of xs < mean of its last b elements
ShortBelowLong(xs, a, b) == SumOfLast(xs, a) * b < SumOfLast(xs, b) * a

(***************************************************************************)
(* C9: classification by detect_ma_cross.  For a series of at least        *)
(* long_period + 1 prices and 0 < short_period < long_period the result    *)
(* is golden_cross exactly when the short MA is < the long MA over the     *)
(* series without its last element and >= it over the full series;         *)
(* dead_cross exactly when it is >= over the series without its last       *)
(* element and < over the full series; no result otherwise.  The two       *)
(* conditions never hold together.                                         *)
(***************************************************************************)
C9_MaCrossClassification ==
    (/\ calc.fn = "detect_ma_cross"
     /\ 0 < calc.a
     /\ calc.a < calc.b
     /\ Len(calc.prices) >= calc.b + 1) =>
        LET prev == SubSeq(calc.prices, 1, Len(calc.prices) - 1)
            golden == /\ ShortBelowLong(prev, calc.a, calc.b)
                      /\ ~ShortBelowLong(calc.prices, calc.a, calc.b)
            dead == /\ ~ShortBelowLong(prev, calc.a, calc.b)
                    /\ ShortBelowLong(calc.prices, calc.a, calc.b)
        IN  /\ (calc.out = Val("golden_cross")) <=> golden
            /\ (calc.out = Val("dead_cross")) <=> dead
            /\ (calc.out = None) <=> (~golden /\ ~dead)
            /\ ~(golden /\ dead)

\* a golden cross in which the two averages of the full series are equal
C9_Witness ==
    /\ calc.fn = "detect_ma_cross"
    /\ 0 < calc.a
    /\ calc.a < calc.b
    /\ Len(calc.prices) >= calc.b + 1
    /\ calc.out = Val("golden_cross")
    /\ SumOfLast(calc.prices, calc.a) * calc.b = SumOfLast(calc.prices, calc.b) * calc.a

(***************************************************************************)
(* C10: soft failure of the indicator functions.  For every series, the    *)
(* empty one included, and all integer arguments: moving_average with      *)
(* period <= 0 or len < period, rsi with period <= 0 or len < period + 1,  *)
(* bollinger_bands with period <= 0 or len < period, find_n_week_low with  *)
(* len < min_days, and detect_ma_cross with short_period <= 0,             *)
(* long_period <= 0, short_period >= long_period or len < long_period + 1  *)
(* return None; they do not raise.                                         *)
(***************************************************************************)
C10_SoftFailure ==
    LET n == Len(calc.prices)
    IN  /\ (calc.fn = "moving_average" /\ (calc.a <= 0 \/ n < calc.a))
              => calc.out = None
        /\ (calc.fn = "rsi" /\ (calc.a <= 0 \/ n < calc.a + 1))
              => calc.out = None
        /\ (calc.fn = "bollinger_bands" /\ (calc.a <= 0 \/ n < calc.a))
              => calc.out = None
        /\ (calc.fn = "find_n_week_low" /\ n < calc.a)
              => calc.out = None
        /\ (calc.fn = "detect_ma_cross"
            /\ (calc.a <= 0 \/ calc.b <= 0 \/ calc.a >= calc.b \/ n < calc.b + 1))
              => calc.out = None

\* moving_average of a non-empty series with period 0: None, no division
C10_Witness ==
    /\ calc.fn = "moving_average"
    /\ calc.prices # <<>>
    /\ calc.a = 0
    /\ calc.out = None

(***************************************************************************)
(* C11: for a series of length >= period and period >= 1, moving_average   *)
(* is the arithmetic mean of the last period elements; the elements before *)
(* that window have no influence (the result is that of the window alone). *)
(***************************************************************************)
C11_MovingAverageIsMeanOfWindow ==
    (/\ calc.fn = "moving_average"
     /\ calc.a >= 1
     /\ Len(calc.prices) >= calc.a) =>
        LET n == Len(calc.prices)
            window == SubSeq(calc.prices, n - calc.a + 1, n)
        IN  /\ IsVal(calc.out)
            /\ calc.out.value.den > 0
            /\ calc.out.value.num * calc.a = calc.out.value.den * SumOfLast(calc.prices, calc.a)
            /\ calc.out = moving_average(window, calc.a)

\* a window of 2 out of 4 prices, the first two summing to something else,
\* and a mean that is no integer
C11_Witness ==
    /\ calc.fn = "moving_average"
    /\ calc.a = 2
    /\ Len(calc.prices) = 4
    /\ calc.prices[1] + calc.prices[2] # calc.prices[3] + calc.prices[4]
    /\ IsVal(calc.out)
    /\ calc.out.value.den = 2
    /\ calc.out.value.num = calc.prices[3] + calc.prices[4]

(***************************************************************************)
(* The IndicatorCalculator functions with their default arguments, on      *)
(* series as long as the analyzer's histories                              *)
(***************************************************************************)
\* def rsi(prices, period: int = 14)
RSI_DEFAULT_PERIOD == 14

\* def bollinger_bands(prices, period: int = 20, num_std: float = 2.0)
BOLLINGER_DEFAULT_PERIOD == 20

BOLLINGER_DEFAULT_STD == 2

\* def find_n_week_low(prices, min_days: int = 10)
FIND_LOW_DEFAULT_MIN_DAYS == 10

SeriesLens == {15, 16, 20, 21}

\* the day-over-day steps of a generated series repeat a pattern of three
Patterns == [1..3 -> (-MaxStep)..MaxStep]

\* the series of n prices from 1400 whose steps repeat pattern p
PatternSeries(n, p) ==
    [i \in 1..n |->
        LET k == (i - 1) \div 3
            r == (i - 1) % 3
        IN  1400 + k * (p[1] + p[2] + p[3])
                 + (IF r >= 1 THEN p[1] ELSE 0)
                 + (IF r >= 2 THEN p[2] ELSE 0)]

SeriesInputs ==
    {h \in Histories : Len(h) <= 21}
    \cup {PatternSeries(n, p) : n \in SeriesLens, p \in Patterns}

SeriesRsi ==
    /\ calc.fn = "input"
    /\ calc' = Call("rsi", calc.prices, RSI_DEFAULT_PERIOD, 0,
                    rsi(calc.prices, RSI_DEFAULT_PERIOD))
    /\ UNCHANGED analyzerVars

SeriesBollingerBands ==
    /\ calc.fn = "input"
    /\ calc' = Call("bollinger_bands", calc.prices, BOLLINGER_DEFAULT_PERIOD,
                    BOLLINGER_DEFAULT_STD,
                    bollinger_bands(calc.prices, BOLLINGER_DEFAULT_PERIOD,
                                    BOLLINGER_DEFAULT_STD))
    /\ UNCHANGED analyzerVars

SeriesFindNWeekLow ==
    /\ calc.fn = "input"
    /\ calc' = Call("find_n_week_low", calc.prices, FIND_LOW_DEFAULT_MIN_DAYS, 0,
                    find_n_week_low(calc.prices, FIND_LOW_DEFAULT_MIN_DAYS))
    /\ UNCHANGED analyzerVars

InitSeries ==
    /\ db = [c \in CURRENCIES |-> <<>>]
    /\ Idle
    /\ \E prices \in SeriesInputs : calc = Call("input", prices, 0, 0, None)

NextSeries ==
    \/ SeriesRsi
    \/ SeriesBollingerBands
    \/ SeriesFindNWeekLow

SpecSeries == InitSeries /\ [][NextSeries]_vars

(***************************************************************************)
(* C12: RSI range.  For a series of positive prices of length >= 15,       *)
(* rsi(series, 14) returns a value (not None, no exception) and the value  *)
(* lies in the closed interval [0, 100].                                   *)
(***************************************************************************)
C12_RsiRange ==
    (/\ calc.fn = "rsi"
     /\ calc.a = 14
     /\ Len(calc.prices) >= 15
     /\ \A i \in 1..Len(calc.prices) : calc.prices[i] > 0) =>
        /\ IsVal(calc.out)
        /\ calc.out.value.whole >= 0
        /\ calc.out.value.num >= 0
        /\ calc.out.value.num < calc.out.value.den
        /\ \/ calc.out.value.whole < 100
           \/ calc.out.value.whole = 100 /\ calc.out.value.num = 0

\* an RSI strictly inside the interval and no whole number, on 21 prices
C12_Witness ==
    /\ calc.fn = "rsi"
    /\ calc.a = 14
    /\ Len(calc.prices) = 21
    /\ IsVal(calc.out)
    /\ calc.out.value.whole > 0
    /\ calc.out.value.whole < 100
    /\ calc.out.value.num > 0

\* the series never decreases from one day to the next
NeverDecreases(xs) == \A i \in 1..(Len(xs) - 1) : xs[i] <= xs[i + 1]

(***************************************************************************)
(* C13: the RSI zero-loss rule.  For every series of sufficient length     *)
(* (more than period prices, period >= 1) that never decreases from one    *)
(* day to the next, the smoothed average loss is zero and rsi returns      *)
(* exactly 100, without a division by zero; so for a rising series and     *)
(* for a flat one alike (100, not 50).                                     *)
(***************************************************************************)
C13_RsiZeroLossRule ==
    (/\ calc.fn = "rsi"
     /\ calc.a >= 1
     /\ Len(calc.prices) >= calc.a + 1
     /\ NeverDecreases(calc.prices)) =>
        calc.out = Val(MixedOfInt(100))

\* a flat series, longer than period + 1: 100
C13_Witness ==
    /\ calc.fn = "rsi"
    /\ calc.a = 2
    /\ Len(calc.prices) = 4
    /\ \A i \in 1..4 : calc.prices[i] = calc.prices[1]
    /\ calc.out = Val(MixedOfInt(100))

(***************************************************************************)
(* Binary floating point.  A Python float is a binary64 number: every      *)
(* arithmetic operation returns the exact result rounded to the nearest    *)
(* number of 53 significant bits, ties to even.  Here the same rounding    *)
(* is done to Prec significant bits (exponent range unbounded), and a      *)
(* float is the rational it stands for.                                    *)
(***************************************************************************)
\* significant bits of a float
Prec == 12

RECURSIVE Pow2(_)
Pow2(k) == IF k = 0 THEN 1 ELSE 2 * Pow2(k - 1)

RECURSIVE ILog2(_)
\* floor(log2(n)) for an integer n >= 1
ILog2(n) == IF n < 2 THEN 0 ELSE 1 + ILog2(n \div 2)

\* x * 2^s
Scale2(x, s) ==
    IF s >= 0 THEN RatMul(x, RatOfInt(Pow2(s))) ELSE RatMul(x, Rat(1, Pow2(-s)))

\* floor(log2(x)) for a rational x > 0
Exponent(x) ==
    IF x.num >= x.den THEN ILog2(x.num \div x.den)
    ELSE LET c == (x.den + x.num - 1) \div x.num
         IN  IF c = 1 THEN 0 ELSE -(ILog2(c - 1) + 1)

\* the integer nearest to a rational y >= 0, ties to even
RoundHalfEven(y) ==
    LET q == y.num \div y.den
        r == y.num % y.den
    IN  IF 2 * r > y.den \/ (2 * r = y.den /\ q % 2 = 1) THEN q + 1 ELSE q

\* the float nearest to a rational x > 0
FlPos(x) ==
    LET s == Exponent(x) - Prec + 1
    IN  Scale2(RatOfInt(RoundHalfEven(Scale2(x, -s))), s)

\* the float nearest to a rational x
Fl(x) ==
    IF x.num = 0 THEN x
    ELSE IF x.num < 0 THEN RatNeg(FlPos(RatNeg(x)))
    ELSE FlPos(x)

FlAdd(x, y) == Fl(RatAdd(x, y))

FlSub(x, y) == Fl(RatSub(x, y))

FlMul(x, y) == Fl(RatMul(x, y))

FlDiv(x, y) == Fl(RatDiv(x, y))

\* math.sqrt of a float x >= 0: the float nearest to the square root
FlSqrt(x) ==
    IF x.num = 0 THEN x
    ELSE LET e == (Exponent(x) \div 2) - Prec + 1
             y4 == Scale2(x, 2 - 2 * e)
             t == ISqrt(y4.num \div y4.den)
         IN  Scale2(RatOfInt((t + 1) \div 2), e)

RECURSIVE FlSumFrom(_, _, _)
\* sum(xs[i:], acc): Python's sum adds from the left, rounding every time
FlSumFrom(acc, xs, i) ==
    IF i > Len(xs) THEN acc
    ELSE LET next == FlAdd(acc, xs[i])
         IN  IF next.den > 0 THEN FlSumFrom(next, xs, i + 1) ELSE next

FlSum(xs) == FlSumFrom(RatOfInt(0), xs, 1)

\* bollinger_bands on floats: the prices are floats (given as the integers
\* they stand for), the result is Val(<<upper, middle, lower>>) of floats
bollinger_bands_float(prices, period, num_std) ==
    IF Len(prices) < period \/ period <= 0 THEN None
    ELSE LET recent_prices == [i \in 1..period |->
                                 RatOfInt(SliceFrom(prices, -period)[i])]
             middle == FlDiv(FlSum(recent_prices), RatOfInt(period))
             sq == [i \in 1..period |->
                      LET d == FlSub(recent_prices[i], middle) IN FlMul(d, d)]
             variance == FlDiv(FlSum(sq), RatOfInt(period))
             std_dev == FlSqrt(variance)
             width == FlMul(RatOfInt(num_std), std_dev)
             upper == FlAdd(middle, width)
             lower == FlSub(middle, width)
         IN  Val(<<upper, middle, lower>>)

\* prices that are floats with up to Prec significant bits
FloatPrices == Pow2(Prec - 1)..(Pow2(Prec - 1) + 255)

\* constant series, and series of two levels
FloatSeries ==
    {Flat(n, x) : n \in {20, 21}, x \in FloatPrices}
    \cup {Flat(10, x) \o Flat(10, x + 2) : x \in FloatPrices}

FloatBollingerBands ==
    /\ calc.fn = "input"
    /\ calc' = Call("bollinger_bands", calc.prices, BOLLINGER_DEFAULT_PERIOD,
                    BOLLINGER_DEFAULT_STD,
                    bollinger_bands_float(calc.prices, BOLLINGER_DEFAULT_PERIOD,
                                          BOLLINGER_DEFAULT_STD))
    /\ UNCHANGED analyzerVars

InitFloat ==
    /\ db = [c \in CURRENCIES |-> <<>>]
    /\ Idle
    /\ \E prices \in FloatSeries : calc = Call("input", prices, 0, 0, None)

NextFloat == FloatBollingerBands

SpecFloat == InitFloat /\ [][NextFloat]_vars

\* the last 20 prices, each less the last one
CentredWindow(xs) ==
    [i \in 1..20 |-> xs[Len(xs) - 20 + i] - xs[Len(xs)]]

C15_LowOfWholeSeries ==
    (/\ calc.fn = "find_n_week_low"
     /\ calc.a = 10
     /\ Len(calc.prices) >= 10) =>
        /\ IsVal(calc.out)
        /\ calc.out.value[2] = Len(calc.prices)
        /\ \E i \in 1..Len(calc.prices) : calc.prices[i] = calc.out.value[1]
        /\ \A i \in 1..Len(calc.prices) : calc.out.value[1] <= calc.prices[i]

\* the low is older than the last 10 days
C15_Witness ==
    /\ calc.fn = "find_n_week_low"
    /\ calc.a = 10
    /\ Len(calc.prices) = 21
    /\ IsVal(calc.out)
    /\ calc.out.value[2] = 21
    /\ \E i \in 1..11 : calc.prices[i] = calc.out.value[1]
    /\ \A i \in 12..21 : calc.prices[i] > calc.out.value[1]

(***************************************************************************)
(* SignalMessageFormatter.  A text is a sequence of tokens: an ASCII       *)
(* character stands for itself, a word of letters is one token, and an     *)
(* emoji or a Korean phrase is written as its name in capitals.  String    *)
(* concatenation is \o, and a currency code is a single token.             *)
(***************************************************************************)
NL == "\n"

\* d.get(key, default) of a dict given as a function
DictGet(d, key, default) == IF key \in DOMAIN d THEN d[key] ELSE default

SIGNAL_EMOJI ==
    [t \in {"n_week_low", "golden_cross", "dead_cross", "rsi_oversold",
            "rsi_overbought", "bollinger_low", "bollinger_high"} |->
        CASE t = "n_week_low" -> "CHART_DOWN"
          [] t = "golden_cross" -> "SPARKLES"
          [] t = "dead_cross" -> "WARNING"
          [] t = "rsi_oversold" -> "BATTERY"
          [] t = "rsi_overbought" -> "FIRE"
          [] t = "bollinger_low" -> "BAR_CHART"
          [] t = "bollinger_high" -> "CHART_UP"]

CURRENCY_EMOJI ==
    [c \in {"USD", "JPY(100)"} |-> IF c = "USD" THEN "DOLLAR_NOTE" ELSE "YEN_NOTE"]

CURRENCY_NAME ==
    [c \in {"USD", "JPY(100)"} |-> IF c = "USD" THEN "DALLEO" ELSE "ENHWA"]

BoldOpen == <<"<", "b", ">">>

BoldClose == <<"<", "/", "b", ">">>

\* the banner line
Banner == <<"SIREN", " ">> \o BoldOpen \o <<"BUY_SIGNAL_DETECTED">> \o BoldClose

RECURSIVE JoinFrom(_, _, _)
JoinFrom(sep, lines, i) ==
    IF i > Len(lines) THEN <<>>
    ELSE IF i = Len(lines) THEN lines[i]
    ELSE lines[i] \o sep \o JoinFrom(sep, lines, i + 1)

\* sep.join(lines)
Join(sep, lines) == JoinFrom(sep, lines, 1)

DigitToken(d) == <<"0", "1", "2", "3", "4", "5", "6", "7", "8", "9">>[d + 1]

RECURSIVE GroupedDigits(_)
\* the digits of n >= 0 with a comma between groups of three
GroupedDigits(n) ==
    IF n < 10 THEN <<DigitToken(n)>>
    ELSE IF n < 1000 THEN Append(GroupedDigits(n \div 10), DigitToken(n % 10))
    ELSE GroupedDigits(n \div 1000)
         \o <<",", DigitToken((n \div 100) % 10), DigitToken((n \div 10) % 10),
              DigitToken(n % 10)>>

\* f"{current_rate:,.2f}" of a rate that is a whole number of won
FormatRate(current_rate) == GroupedDigits(current_rate) \o <<".", "0", "0">>

RECURSIVE GroupKeysFrom(_, _, _)
GroupKeysFrom(signal_list, i, keys) ==
    IF i > Len(signal_list) THEN keys
    ELSE IF \E k \in 1..Len(keys) : keys[k] = signal_list[i].currency
         THEN GroupKeysFrom(signal_list, i + 1, keys)
         ELSE GroupKeysFrom(signal_list, i + 1, Append(keys, signal_list[i].currency))

\* variant: the currencies the analyzer tracks come first, in its order
GroupKeysTracked(signal_list) ==
    LET keys == GroupKeysFrom(signal_list, 1, <<>>)
        IsTracked(c) == c \in {"USD", "JPY(100)"}
        IsUsd(c) == c = "USD"
        IsJpy(c) == c = "JPY(100)"
        IsOther(c) == ~IsTracked(c)
    IN  SelectSeq(keys, IsUsd) \o SelectSeq(keys, IsJpy) \o SelectSeq(keys, IsOther)

\* variant: a new group starts whenever the currency changes
GroupKeysRuns(signal_list) ==
    LET Starts(i) == i = 1 \/ signal_list[i].currency # signal_list[i - 1].currency
        RECURSIVE From(_)
        From(i) == IF i > Len(signal_list) THEN <<>>
                   ELSE IF Starts(i) THEN <<signal_list[i].currency>> \o From(i + 1)
                   ELSE From(i + 1)
    IN  From(1)

\* the keys of grouped: a dict keeps its keys in the order of insertion
GroupKeys(signal_list) == GroupKeysFrom(signal_list, 1, <<>>)

\* grouped[currency]
GroupOf(signal_list, cur) ==
    LET Is(s) == s.currency = cur IN SelectSeq(signal_list, Is)

_format_signal_line(signal) ==
    LET emoji == DictGet(SIGNAL_EMOJI, signal.signal_type, "PIN")
    IN  <<emoji, " ">> \o signal.message

\* variant: the header shows the rate of the last signal of the group
_format_currency_block_last_rate(cur, currency_signals) ==
    LET emoji == DictGet(CURRENCY_EMOJI, cur, "EXCHANGE")
        name == DictGet(CURRENCY_NAME, cur, cur)
        current_rate == currency_signals[Len(currency_signals)].current_rate
        header == <<emoji, " ">> \o BoldOpen \o <<name, "(", cur, ")">> \o BoldClose
                  \o <<" ", "-", " ", "HYEONJAE", ":", " ">>
                  \o FormatRate(current_rate) \o <<"WON">>
        signal_lines == [i \in 1..Len(currency_signals) |->
                            _format_signal_line(currency_signals[i])]
    IN  Join(<<NL>>, <<header>> \o signal_lines)

_format_currency_block(cur, currency_signals) ==
    LET emoji == DictGet(CURRENCY_EMOJI, cur, "EXCHANGE")
        name == DictGet(CURRENCY_NAME, cur, cur)
        current_rate == currency_signals[1].current_rate
        header == <<emoji, " ">> \o BoldOpen \o <<name, "(", cur, ")">> \o BoldClose
                  \o <<" ", "-", " ", "HYEONJAE", ":", " ">>
                  \o FormatRate(current_rate) \o <<"WON">>
        signal_lines == [i \in 1..Len(currency_signals) |->
                            _format_signal_line(currency_signals[i])]
    IN  Join(<<NL>>, <<header>> \o signal_lines)

\* variant: the empty list is rendered like any other
format_signals_no_empty_guard(signal_list) ==
    LET keys == GroupKeys(signal_list)
        lines == [k \in 1..(2 * Len(keys)) |->
                    IF k % 2 = 1 THEN <<>>
                    ELSE _format_currency_block(keys[k \div 2],
                                                GroupOf(signal_list, keys[k \div 2]))]
    IN  Join(<<NL>>, <<Banner>> \o lines)

format_signals(signal_list) ==
    IF signal_list = <<>> THEN <<>>
    ELSE LET keys == GroupKeys(signal_list)
             \* lines.append("") and lines.append(block), joined by "\n"
             lines == [k \in 1..(2 * Len(keys)) |->
                         IF k % 2 = 1 THEN <<>>
                         ELSE _format_currency_block(keys[k \div 2],
                                                     GroupOf(signal_list, keys[k \div 2]))]
         IN  Join(<<NL>>, <<Banner>> \o lines)

\* the longest signal list that is formatted
MaxSignals == 3

FormatCurrencies == {"USD", "JPY(100)", "EUR"}

\* a signal of a known type with a plain message, and one of an unknown
\* type whose message holds a tag
FormatKinds ==
    {<<"n_week_low", <<"lowest", " ", "in", " ", "3", " ", "weeks">>>>,
     <<"custom", <<"<", "i", ">", "note", "<", "/", "i", ">">>>>}

FormatRates == {950, 1425}

FormatSignals ==
    {Signal(c, k[1], k[2], r, None) :
        c \in FormatCurrencies, k \in FormatKinds, r \in FormatRates}

SignalLists == UNION {[1..n -> FormatSignals] : n \in 0..MaxSignals}

FormatSignalsCall ==
    /\ calc.fn = "input"
    /\ calc' = [fn |-> "format_signals", signal_list |-> calc.signal_list,
                out |-> format_signals(calc.signal_list)]
    /\ UNCHANGED analyzerVars

InitFormat ==
    /\ db = [c \in CURRENCIES |-> <<>>]
    /\ Idle
    /\ \E signal_list \in SignalLists : calc = [fn |-> "input", signal_list |-> signal_list]

NextFormat == FormatSignalsCall

SpecFormat == InitFormat /\ [][NextFormat]_vars

\* text.split(sep)
Split(text, sep) ==
    LET at == {i \in 1..Len(text) : text[i] = sep}
        \* the k-th separator; 0 before the first, Len(text) + 1 after the last
        Pos(k) == IF k = 0 THEN 0
                  ELSE IF k > Cardinality(at) THEN Len(text) + 1
                  ELSE CHOOSE i \in at : Cardinality({j \in at : j < i}) = k - 1
    IN  [k \in 1..(Cardinality(at) + 1) |-> SubSeq(text, Pos(k - 1) + 1, Pos(k) - 1)]

\* the lines of a text
Lines(text) == Split(text, NL)

\* part occurs in text at position i
OccursAt(text, part, i) ==
    /\ i + Len(part) - 1 <= Len(text)
    /\ \A j \in 1..Len(part) : text[i + j - 1] = part[j]

Contains(text, part) == \E i \in 1..Len(text) : OccursAt(text, part, i)

StartsWith(text, part) == OccursAt(text, part, 1)

\* a header line of currency c: it shows the code in parentheses, in bold
IsHeaderOf(line, c) == Contains(line, <<"(", c, ")">> \o BoldClose)

IsHeader(line) == \E c \in FormatCurrencies : IsHeaderOf(line, c)

\* a signal line: a glyph of a signal type, a space and the message
SignalGlyphs == {SIGNAL_EMOJI[t] : t \in DOMAIN SIGNAL_EMOJI} \cup {"PIN"}

IsSignalLine(line) == Len(line) >= 2 /\ line[1] \in SignalGlyphs /\ line[2] = " "

Formatted == calc.fn = "format_signals"

(***************************************************************************)
(* C16: format_signals returns the empty string if and only if the list    *)
(* of signals is empty; for a non-empty list the output is not empty and   *)
(* begins with the banner line, which occurs once.                         *)
(***************************************************************************)
C16_EmptyIffEmpty ==
    Formatted =>
        /\ (calc.out = <<>>) <=> (calc.signal_list = <<>>)
        /\ calc.signal_list # <<>> =>
              /\ Lines(calc.out)[1] = Banner
              /\ Cardinality({i \in 1..Len(Lines(calc.out)) :
                                 Lines(calc.out)[i] = Banner}) = 1

C16_Witness ==
    /\ Formatted
    /\ Len(calc.signal_list) = 2
    /\ Lines(calc.out)[1] = Banner
    /\ Len(Lines(calc.out)) > 3

C16_WitnessEmpty ==
    /\ Formatted
    /\ calc.signal_list = <<>>
    /\ calc.out = <<>>

\* the currency a header line names
HeaderCurrency(line) == CHOOSE c \in FormatCurrencies : IsHeaderOf(line, c)

\* where currency c first appears in the input
FirstIndex(signal_list, c) ==
    CHOOSE i \in 1..Len(signal_list) :
        /\ signal_list[i].currency = c
        /\ \A j \in 1..(i - 1) : signal_list[j].currency # c

\* the positions of the signals of currency c in the input, in order
IndicesOf(signal_list, c) ==
    LET Is(i) == signal_list[i].currency = c
    IN  SelectSeq([i \in 1..Len(signal_list) |-> i], Is)

\* the currencies of the input
CurrenciesOf(signal_list) == {signal_list[i].currency : i \in 1..Len(signal_list)}

(***************************************************************************)
(* C17: format_signals renders the groups in the order in which the        *)
(* currencies first appear in the input (not alphabetical, not the order   *)
(* of the tracked currencies), and the signals of a group in the order of  *)
(* the input: when the first signal is of JPY(100), the JPY(100) block     *)
(* comes before the USD block.                                             *)
(***************************************************************************)
C17_FirstAppearanceOrder ==
    Formatted =>
        LET lines == Lines(calc.out)
            sl == calc.signal_list
            headers == {h \in 1..Len(lines) : IsHeader(lines[h])}
        IN  \* every currency of the input has a block
            /\ \A c \in CurrenciesOf(sl) : \E h \in headers : IsHeaderOf(lines[h], c)
            \* a block that comes earlier is of a currency that appears earlier
            /\ \A h1, h2 \in headers :
                  h1 < h2 => FirstIndex(sl, HeaderCurrency(lines[h1]))
                                < FirstIndex(sl, HeaderCurrency(lines[h2]))
            \* below a header come the signals of its currency, in input order
            /\ \A h \in headers :
                  LET at == IndicesOf(sl, HeaderCurrency(lines[h]))
                  IN  /\ h + Len(at) <= Len(lines)
                      /\ \A j \in 1..Len(at) :
                            /\ IsSignalLine(lines[h + j])
                            /\ lines[h + j][1] =
                                  DictGet(SIGNAL_EMOJI, sl[at[j]].signal_type, "PIN")
                            /\ SubSeq(lines[h + j], 3, Len(lines[h + j]))
                                  = sl[at[j]].message
                      /\ h + Len(at) < Len(lines) => lines[h + Len(at) + 1] = <<>>

\* JPY(100) first, USD second, a different JPY(100) signal third: the
\* JPY(100) block, with both its signals, comes before the USD block
C17_Witness ==
    /\ Formatted
    /\ Len(calc.signal_list) = 3
    /\ calc.signal_list[1].currency = "JPY(100)"
    /\ calc.signal_list[2].currency = "USD"
    /\ calc.signal_list[3].currency = "JPY(100)"
    /\ calc.signal_list[1].message # calc.signal_list[3].message
    /\ LET lines == Lines(calc.out)
       IN  /\ Len(lines) = 8
           /\ IsHeaderOf(lines[3], "JPY(100)")
           /\ SubSeq(lines[4], 3, Len(lines[4])) = calc.signal_list[1].message
           /\ SubSeq(lines[5], 3, Len(lines[5])) = calc.signal_list[3].message
           /\ IsHeaderOf(lines[7], "USD")

(***************************************************************************)
(* C18: for a non-empty list the output of format_signals has exactly one  *)
(* header line for each distinct currency of the input, also when the      *)
(* signals of that currency are not adjacent in the input, and exactly one *)
(* signal line for each input signal.                                      *)
(***************************************************************************)
C18_OneHeaderPerCurrency ==
    (Formatted /\ calc.signal_list # <<>>) =>
        LET lines == Lines(calc.out)
            sl == calc.signal_list
            HeadersOf(c) == {h \in 1..Len(lines) : IsHeaderOf(lines[h], c)}
            signal_lines == {i \in 1..Len(lines) : IsSignalLine(lines[i])}
        IN  /\ \A c \in FormatCurrencies :
                  Cardinality(HeadersOf(c)) = IF c \in CurrenciesOf(sl) THEN 1 ELSE 0
            /\ Cardinality(signal_lines) = Len(sl)
            \* no line is both, and a signal line shows the message of a signal
            /\ \A i \in signal_lines :
                  /\ ~IsHeader(lines[i])
                  /\ \E k \in 1..Len(sl) :
                        SubSeq(lines[i], 3, Len(lines[i])) = sl[k].message

\* the two USD signals are separated by a JPY(100) signal
C18_Witness ==
    /\ Formatted
    /\ Len(calc.signal_list) = 3
    /\ calc.signal_list[1].currency = "USD"
    /\ calc.signal_list[2].currency = "JPY(100)"
    /\ calc.signal_list[3].currency = "USD"
    /\ LET lines == Lines(calc.out)
       IN  /\ Cardinality({h \in 1..Len(lines) : IsHeaderOf(lines[h], "USD")}) = 1
           /\ Cardinality({h \in 1..Len(lines) : IsHeaderOf(lines[h], "JPY(100)")}) = 1
           /\ Cardinality({i \in 1..Len(lines) : IsSignalLine(lines[i])}) = 3

\* the tags the delivery channel is sent: bold and code spans
AllowedTags ==
    {<<"<", "b", ">">>, <<"<", "/", "b", ">">>,
     <<"<", "code", ">">>, <<"<", "/", "code", ">">>}

(***************************************************************************)
(* C19: markup closure of format_signals.  Whatever the message, currency  *)
(* and signal_type strings of the signals are, the rendered text holds no  *)
(* markup tag other than the allowed ones (bold and code spans): every     *)
(* "<" of the text opens an allowed tag.                                   *)
(***************************************************************************)
C19_MarkupClosure ==
    Formatted =>
        \A i \in 1..Len(calc.out) :
            calc.out[i] = "<" => \E tag \in AllowedTags : OccursAt(calc.out, tag, i)

\* a message that holds an <i> tag is rendered as it is
C19_ForeignTag ==
    /\ Formatted
    /\ Len(calc.signal_list) = 1
    /\ Contains(calc.signal_list[1].message, <<"<", "i", ">">>)
    /\ Contains(calc.out, <<"<", "i", ">">>)

(***************************************************************************)
(* SparklineGenerator.  A sparkline is a sequence of glyphs; the glyphs of *)
(* the ramp are written BLOCK_1 (lowest) to BLOCK_8 (full).  The values    *)
(* are floats and the index is computed in floating point.                 *)
(***************************************************************************)
SPARK_BLOCKS ==
    <<"BLOCK_1", "BLOCK_2", "BLOCK_3", "BLOCK_4",
      "BLOCK_5", "BLOCK_6", "BLOCK_7", "BLOCK_8">>

\* the glyph returned for values that are all equal
MIDDLE_BLOCK == "BLOCK_4"

\* int(x) of a float: the fraction is cut off
PyInt(x) ==
    IF x.num >= 0 THEN x.num \div x.den ELSE -((-x.num) \div x.den)

\* seq[index] of Python: counted from 0, from the end when negative
PyIndex(seq, index) ==
    IF 0 <= index /\ index < Len(seq) THEN Val(seq[index + 1])
    ELSE IF -Len(seq) <= index /\ index < 0 THEN Val(seq[Len(seq) + index + 1])
    ELSE Raise("IndexError")

SeqMax(xs) == CHOOSE m \in {xs[i] : i \in 1..Len(xs)} :
                  \A i \in 1..Len(xs) : m >= xs[i]

\* variant: the index is rounded to the nearest level
RampIndexRounded(v, min_val, max_val, scale) ==
    LET x == FlMul(FlDiv(FlSub(RatOfInt(v), RatOfInt(min_val)),
                         FlSub(RatOfInt(max_val), RatOfInt(min_val))),
                   RatOfInt(scale))
    IN  RoundHalfEven(x)

\* idx = int((v - min_val) / (max_val - min_val) * scale)
RampIndex(v, min_val, max_val, scale) ==
    PyInt(FlMul(FlDiv(FlSub(RatOfInt(v), RatOfInt(min_val)),
                      FlSub(RatOfInt(max_val), RatOfInt(min_val))),
                RatOfInt(scale)))

\* variant: the index is scaled by the number of glyphs
generate_scale_by_len(values) ==
    IF values = <<>> THEN Val(<<>>)
    ELSE LET min_val == SeqMin(values)
             max_val == SeqMax(values)
         IN  IF min_val = max_val THEN Val(Flat(Len(values), MIDDLE_BLOCK))
             ELSE LET scale == Len(SPARK_BLOCKS)
                      glyph == [i \in 1..Len(values) |->
                                  PyIndex(SPARK_BLOCKS,
                                          RampIndex(values[i], min_val, max_val, scale))]
                  IN  IF \E i \in 1..Len(values) : IsRaise(glyph[i])
                      THEN Raise("IndexError")
                      ELSE Val([i \in 1..Len(values) |-> glyph[i].value])

generate(values) ==
    IF values = <<>> THEN Val(<<>>)
    ELSE LET min_val == SeqMin(values)
             max_val == SeqMax(values)
         IN  IF min_val = max_val THEN Val(Flat(Len(values), MIDDLE_BLOCK))
             ELSE LET scale == Len(SPARK_BLOCKS) - 1
                      glyph == [i \in 1..Len(values) |->
                                  PyIndex(SPARK_BLOCKS,
                                          RampIndex(values[i], min_val, max_val, scale))]
                  IN  IF \E i \in 1..Len(values) : IsRaise(glyph[i])
                      THEN Raise("IndexError")
                      ELSE Val([i \in 1..Len(values) |-> glyph[i].value])

\* the longest list of values, and the largest value, of a sparkline
MaxSparkLen == 3

MaxSparkValue == 7

SparkInputs == UNION {[1..n -> 0..MaxSparkValue] : n \in 0..MaxSparkLen}

SparkGenerate ==
    /\ calc.fn = "input"
    /\ calc' = [fn |-> "generate", values |-> calc.values, out |-> generate(calc.values)]
    /\ UNCHANGED analyzerVars

InitSpark ==
    /\ db = [c \in CURRENCIES |-> <<>>]
    /\ Idle
    /\ \E values \in SparkInputs : calc = [fn |-> "input", values |-> values]

NextSpark == SparkGenerate

SpecSpark == InitSpark /\ [][NextSpark]_vars

(***************************************************************************)
(* C20: SparklineGenerator.generate returns a string as long as the input  *)
(* whose every glyph is one of the 8 of the ramp, the computed index being *)
(* within 0..7; the empty input gives the empty string, and an input whose *)
(* values are all equal (a single value included) gives the middle glyph   *)
(* repeated to the length of the input.                                    *)
(***************************************************************************)
C20_SparklineShape ==
    calc.fn = "generate" =>
        LET values == calc.values
            n == Len(values)
        IN  /\ IsVal(calc.out)
            /\ Len(calc.out.value) = n
            /\ \A i \in 1..n : \E k \in 1..8 : calc.out.value[i] = SPARK_BLOCKS[k]
            /\ (n > 0 /\ SeqMin(values) # SeqMax(values)) =>
                  \A i \in 1..n :
                      LET index == RampIndex(values[i], SeqMin(values), SeqMax(values), 7)
                      IN  /\ index \in 0..7
                          /\ calc.out.value[i] = SPARK_BLOCKS[index + 1]
            /\ n = 0 => calc.out.value = <<>>
            /\ (n > 0 /\ \A i \in 1..n : values[i] = values[1]) =>
                  calc.out.value = [i \in 1..n |-> "BLOCK_4"]

\* the lowest, the full and a glyph in between in one sparkline
C20_Witness ==
    /\ calc.fn = "generate"
    /\ calc.values = <<0, 7, 5>>
    /\ calc.out = Val(<<"BLOCK_1", "BLOCK_8", "BLOCK_6">>)

\* equal values: the middle glyph, repeated
C20_WitnessFlat ==
    /\ calc.fn = "generate"
    /\ calc.values = <<5, 5, 5>>
    /\ calc.out = Val(<<"BLOCK_4", "BLOCK_4", "BLOCK_4">>)

(***************************************************************************)
(* C21: for a series with min # max, generate maps every position that     *)
(* holds the minimum to the lowest glyph of the ramp (index 0), every      *)
(* position that holds the maximum to the highest (index 7), and every     *)
(* other value v to index floor((v - min) / (max - min) * 7).              *)
(***************************************************************************)
C21_MinMaxAndFloor ==
    (/\ calc.fn = "generate"
     /\ calc.values # <<>>
     /\ SeqMin(calc.values) # SeqMax(calc.values)) =>
        LET values == calc.values
            lo == SeqMin(values)
            hi == SeqMax(values)
        IN  /\ IsVal(calc.out)
            /\ Len(calc.out.value) = Len(values)
            /\ \A i \in 1..Len(values) :
                  /\ values[i] = lo => calc.out.value[i] = SPARK_BLOCKS[1]
                  /\ values[i] = hi => calc.out.value[i] = SPARK_BLOCKS[8]
                  \* the floor of the exact quotient, by integer division
                  /\ calc.out.value[i]
                        = SPARK_BLOCKS[((values[i] - lo) * 7) \div (hi - lo) + 1]

\* 3 between 2 and 6: index floor(1.75) = 1
C21_Witness ==
    /\ calc.fn = "generate"
    /\ calc.values = <<2, 6, 3>>
    /\ calc.out = Val(<<"BLOCK_1", "BLOCK_8", "BLOCK_2">>)

(***************************************************************************)
(* Two calls running concurrently on one analyzer.  BuySignalAnalyzer      *)
(* holds only the db_connector; everything else a call works on is an      *)
(* argument or a local variable, so every thread has its own copy.  The    *)
(* provider answers from the table and its answer depends only on its      *)
(* arguments.  A step of a thread is one statement group of the code.      *)
(***************************************************************************)
Threads == {1, 2}

\* the frame of a call of analyze(d)
AnalyzeFrame(d) ==
    [entry |-> "analyze", today_rates |-> d, pc |-> "loop", idx |-> 1,
     all_signals |-> <<>>, currency |-> "", today_rate |-> 0, rates |-> <<>>,
     signals |-> <<>>, result |-> NotCalled]

\* the frame of a call of analyze_currency(c, t)
CurrencyFrame(c, t) ==
    [entry |-> "analyze_currency", today_rates |-> <<>>, pc |-> "get_recent_rates",
     idx |-> 0, all_signals |-> <<>>, currency |-> c, today_rate |-> t,
     rates |-> <<>>, signals |-> <<>>, result |-> NotCalled]

ConcurrentCalls ==
    {AnalyzeFrame(d) : d \in {<<<<"USD", 1395>>, <<"JPY(100)", 1399>>>>,
                              <<<<"JPY(100)", 1434>>>>}}
    \cup {CurrencyFrame(c, t) : c \in {"USD", "JPY(100)"}, t \in {1395, 1434}}

\* variant: the list of signals is an attribute of the analyzer, which the
\* threads share
AppendSignalsShared(frames, t, new) ==
    [u \in DOMAIN frames |-> [frames[u] EXCEPT !.signals = @ \o new]]

\* signals.append(...) on the list that is local to the call of thread t
AppendSignals(frames, t, new) ==
    [frames EXCEPT ![t].signals = @ \o new]

\* the for loop of analyze in thread t
ThreadLoop(t) ==
    LET f == calc.frames[t]
        cs == LoopCurrencies(f.today_rates)
    IN  /\ f.pc = "loop"
        /\ calc' = [calc EXCEPT !.frames[t] =
              IF f.idx > Len(cs)
              THEN [f EXCEPT !.result = Val(f.all_signals), !.pc = "done"]
              ELSE IF ~HasKey(f.today_rates, cs[f.idx])
              THEN [f EXCEPT !.idx = @ + 1]
              ELSE [f EXCEPT !.currency = cs[f.idx],
                             !.today_rate = GetItem(f.today_rates, cs[f.idx]).value,
                             !.signals = <<>>,
                             !.rates = <<>>,
                             !.pc = "get_recent_rates"]]

ThreadGetRecentRates(t) ==
    LET f == calc.frames[t]
    IN  /\ f.pc = "get_recent_rates"
        /\ calc' = [calc EXCEPT !.frames[t] =
              [f EXCEPT !.rates = get_recent_rates(db, f.currency, MA_LONG + 1),
                        !.pc = CHECKS[1]]]

\* one check of analyze_currency in thread t, on the locals of its frame
ThreadCheck(t) ==
    \E k \in 1..Len(CHECKS) :
       /\ calc.frames[t].pc = CHECKS[k]
       /\ \E c \in {calc.frames[t].currency}, r \in {calc.frames[t].today_rate},
             rs \in {calc.frames[t].rates} :
             \E checked \in {CheckResult(CHECKS[k], c, r, rs)} :
                \E new \in {IF IsVal(checked) THEN checked.value ELSE <<>>} :
                   calc' = [calc EXCEPT !.frames =
                      [AppendSignals(calc.frames, t, new) EXCEPT ![t].pc = AfterCheck(k)]]

ThreadReturn(t) ==
    LET f == calc.frames[t]
    IN  /\ f.pc = "return"
        /\ calc' = [calc EXCEPT !.frames[t] =
              IF f.entry = "analyze"
              THEN [f EXCEPT !.all_signals = @ \o f.signals, !.idx = @ + 1,
                             !.pc = "loop"]
              ELSE [f EXCEPT !.result = Val(f.signals), !.pc = "done"]]

ThreadStep ==
    /\ calc.fn = "threads"
    /\ \E t \in Threads :
          \/ ThreadLoop(t)
          \/ ThreadGetRecentRates(t)
          \/ ThreadCheck(t)
          \/ ThreadReturn(t)
    /\ UNCHANGED analyzerVars

InitThreads ==
    /\ db \in AnalyzeTables
    /\ Idle
    /\ \E frames \in [Threads -> ConcurrentCalls] :
          calc = [fn |-> "threads", calls |-> frames, frames |-> frames]

NextThreads == ThreadStep

SpecThreads == InitThreads /\ [][NextThreads]_vars

\* what analyze_currency(c, t) returns when it runs alone
AloneCurrency(c, t) ==
    ExpectedSignals(c, t, get_recent_rates(db, c, MA_LONG + 1), {})

\* what the call that started as frame f returns when it runs alone
Alone(f) ==
    IF f.entry = "analyze_currency" THEN AloneCurrency(f.currency, f.today_rate)
    ELSE LET part(c) == IF HasKey(f.today_rates, c)
                        THEN AloneCurrency(c, GetItem(f.today_rates, c).value)
                        ELSE <<>>
         IN  part("USD") \o part("JPY(100)")

IsPrefix(s, whole) == Len(s) <= Len(whole) /\ s = SubSeq(whole, 1, Len(s))

\* the signals the call of frame f has collected so far: between two
\* currencies of analyze the local list of the finished analyze_currency call
\* is gone
Collected(f) ==
    IF f.entry = "analyze" /\ f.pc \in {"loop", "done"} THEN f.all_signals
    ELSE f.all_signals \o f.signals

(***************************************************************************)
(* C22: concurrent invocations are independent.  In every interleaving of  *)
(* two analyze / analyze_currency calls on the same analyzer, with a       *)
(* provider whose answer depends only on its arguments, each call returns  *)
(* exactly the list it returns when run alone: no signal of one call       *)
(* appears in, is missing from or is reordered in the result of the other. *)
(***************************************************************************)
C22_ConcurrentCallsIndependent ==
    calc.fn = "threads" =>
        \A t \in Threads :
            LET f == calc.frames[t]
                alone == Alone(calc.calls[t])
            IN  \* what a call has collected is the beginning of its own list
                /\ IsPrefix(Collected(f), alone)
                /\ f.pc = "done" => f.result = Val(alone)

\* one call has returned its signals while the other, on another currency,
\* is in the middle of its checks with a signal collected
C22_Witness ==
    /\ calc.fn = "threads"
    /\ calc.frames[1].pc = "done"
    /\ calc.frames[1].result = Val(Alone(calc.calls[1]))
    /\ Len(calc.frames[1].result.value) >= 2
    /\ calc.frames[2].pc = "rsi"
    /\ calc.frames[2].signals # <<>>
    /\ calc.frames[2].currency # calc.frames[1].currency

(***************************************************************************)
(* Signal objects.  Signal is declared with a plain @dataclass: the        *)
(* generated class is not frozen, so an assignment to a field of an        *)
(* instance is carried out.  The objects live in a heap; made keeps, for   *)
(* every object, the field values it was created with.                     *)
(***************************************************************************)
\* @dataclass without frozen=True
SIGNAL_FROZEN == FALSE

\* how many Signal objects are created
MaxObjects == 2

SIGNAL_FIELDS == {"currency", "signal_type", "message", "current_rate", "indicator_value"}

\* setattr(obj, field, value) on an instance of a dataclass
SetAttr(obj, field, value) ==
    IF SIGNAL_FROZEN THEN Raise("FrozenInstanceError")
    ELSE Val([obj EXCEPT ![field] = value])

\* the values a holder of a Signal assigns
AssignedValues(field) ==
    CASE field = "currency" -> {"EUR"}
      [] field = "signal_type" -> {"custom"}
      [] field = "message" -> {<<"edited">>}
      [] field = "current_rate" -> {0}
      [] field = "indicator_value" -> {None}

\* the heap after format_signals(heap): the method reads the list and the
\* fields of its elements and assigns to none of them
HeapAfterFormat(heap) == heap

\* the analyzer creates a Signal
ObjectCreate ==
    /\ calc.fn = "objects"
    /\ Len(calc.heap) < MaxObjects
    /\ \E s \in FormatSignals :
          calc' = [calc EXCEPT !.heap = Append(@, s), !.made = Append(@, s)]
    /\ UNCHANGED analyzerVars

\* the formatter is given the list of all objects
ObjectFormat ==
    /\ calc.fn = "objects"
    /\ calc.text = None
    /\ calc' = [calc EXCEPT !.text = Val(format_signals(calc.heap)),
                            !.heap = HeapAfterFormat(calc.heap)]
    /\ UNCHANGED analyzerVars

\* a holder of a Signal assigns to one of its fields
ObjectAssign ==
    /\ calc.fn = "objects"
    /\ calc.heap = calc.made
    /\ \E i \in 1..Len(calc.heap), field \in SIGNAL_FIELDS :
          \E value \in AssignedValues(field) :
             LET r == SetAttr(calc.heap[i], field, value)
             IN  calc' = [calc EXCEPT !.heap[i] = IF IsVal(r) THEN r.value ELSE @,
                                      !.error = r]
    /\ UNCHANGED analyzerVars

InitObjects ==
    /\ db = [c \in CURRENCIES |-> <<>>]
    /\ Idle
    /\ calc = [fn |-> "objects", heap |-> <<>>, made |-> <<>>, text |-> None,
               error |-> None]

NextObjects == ObjectCreate \/ ObjectFormat \/ ObjectAssign

SpecObjects == InitObjects /\ [][NextObjects]_vars

(***************************************************************************)
(* C23: Signal is an immutable value.  After a Signal has been created,    *)
(* none of its five fields can be or is changed: an assignment to a field  *)
(* is refused, and analyze, analyze_currency and format_signals leave      *)
(* every Signal, and the list given to format_signals, unchanged.          *)
(***************************************************************************)
C23_SignalImmutable ==
    calc.fn = "objects" =>
        /\ calc.heap = calc.made
        /\ calc.error # None => IsRaise(calc.error)

\* an assignment to current_rate went through: the object differs from what
\* was created
C23_FieldChanged ==
    /\ calc.fn = "objects"
    /\ Len(calc.heap) = 1
    /\ IsVal(calc.error)
    /\ calc.made[1].current_rate = 1425
    /\ calc.heap[1].current_rate = 0

\* format_signals alone changes nothing
C23_FormatLeavesUnchanged ==
    (calc.fn = "objects" /\ calc.error = None) => calc.heap = calc.made

(***************************************************************************)
(* The notifier: main() and run_buy_signal_analysis() of                   *)
(* exchange_rate_notifier.  A run works against an environment env: the    *)
(* rows of today in the table, whether the graph is enabled and drawn,     *)
(* what the Telegram sender answers and what the analyzer returns.  log    *)
(* records, in order, the calls of send_message, analyze and               *)
(* format_signals the run makes.                                           *)
(***************************************************************************)
BUY_SIGNAL_TYPES == {"n_week_low", "golden_cross", "rsi_oversold", "bollinger_low"}

\* the rows get_exchange_rates finds for today: currency and deal_bas_r
TodayRows ==
    {<<>>, <<<<"USD", 1400>>>>, <<<<"USD", 1400>>, <<"JPY(100)", 950>>>>}

\* what analyze may return to the notifier
AnalyzerResults ==
    {<<>>,
     <<Signal("USD", "n_week_low", <<"lowest">>, 1400, None)>>,
     <<Signal("USD", "custom", <<"note">>, 1400, None)>>,
     <<Signal("USD", "custom", <<"note">>, 1400, None),
       Signal("JPY(100)", "n_week_low", <<"lowest">>, 950, None)>>}

NotifierEnvs ==
    [rows : TodayRows, graph_enabled : BOOLEAN, graph_path : {"", "graph.png"},
     send_ok : BOOLEAN, collector_ok : BOOLEAN, analyzed : AnalyzerResults]

SendEvent(text, parse_mode, file_path) ==
    [op |-> "send_message", text |-> text, parse_mode |-> parse_mode,
     file_path |-> file_path]

AnalyzeEvent(mapping) == [op |-> "analyze", today_rates |-> mapping]

FormatEvent(signal_list) == [op |-> "format_signals", signal_list |-> signal_list]

\* the regular notification of HTMLMessageFormatter.format_message
RateMessage == <<"RATE_NOTIFICATION">>

GraphCaption == <<"CHART_UP", " ", "GRAPH_CAPTION">>

\* {currency: data['deal_bas_r']} of the rows
RatesMapping(rows) == rows

NotifierAt(function, at) ==
    calc.fn = "notifier" /\ calc.entry = function /\ calc.pc = at

Goto(at) == [calc EXCEPT !.pc = at]

\* main(): sender and connector are set up, collector.run()
MainCollect ==
    /\ NotifierAt("main", "collect")
    /\ calc' = IF calc.env.collector_ok THEN Goto("today_rates") ELSE Goto("finally")
    /\ UNCHANGED analyzerVars

\* today_rates = get_exchange_rates(...); return when there are none
MainTodayRates ==
    /\ NotifierAt("main", "today_rates")
    /\ calc' = IF calc.env.rows = <<>> THEN Goto("finally") ELSE Goto("send")
    /\ UNCHANGED analyzerVars

\* telegram.send_message(message, parse_mode='HTML')
MainSend ==
    /\ NotifierAt("main", "send")
    /\ calc' = [calc EXCEPT !.log = Append(@, SendEvent(RateMessage, "HTML", "")),
                            !.pc = "graph"]
    /\ UNCHANGED analyzerVars

\* the graph, when enabled and drawn; nothing follows it in main()
MainGraph ==
    /\ NotifierAt("main", "graph")
    /\ calc' = [calc EXCEPT
          !.log = IF calc.env.graph_enabled /\ calc.env.graph_path # ""
                  THEN Append(@, SendEvent(GraphCaption, "", calc.env.graph_path))
                  ELSE @,
          !.pc = "finally"]
    /\ UNCHANGED analyzerVars

\* finally: db_connector.close(), in both functions
NotifierFinally ==
    /\ calc.fn = "notifier"
    /\ calc.pc = "finally"
    /\ calc' = [calc EXCEPT !.closed = TRUE, !.pc = "done"]
    /\ UNCHANGED analyzerVars

\* run_buy_signal_analysis(): the rates of today, return when there are none
BuyTodayRates ==
    /\ NotifierAt("run_buy_signal_analysis", "today_rates")
    /\ calc' = IF RatesMapping(calc.env.rows) = <<>> THEN Goto("finally")
               ELSE Goto("analyze")
    /\ UNCHANGED analyzerVars

\* signals = analyzer.analyze(rates_for_analysis), then the buy signals
BuyAnalyze ==
    /\ NotifierAt("run_buy_signal_analysis", "analyze")
    /\ LET signals_ == calc.env.analyzed
           IsBuy(s) == s.signal_type \in BUY_SIGNAL_TYPES
           buy_signals == SelectSeq(signals_, IsBuy)
       IN  calc' = [calc EXCEPT
              !.log = Append(@, AnalyzeEvent(RatesMapping(calc.env.rows))),
              !.buy_signals = buy_signals,
              !.pc = IF signals_ = <<>> \/ buy_signals = <<>> THEN "finally"
                     ELSE "send"]
    /\ UNCHANGED analyzerVars

\* the text of format_signals(buy_signals) is sent
BuySend ==
    /\ NotifierAt("run_buy_signal_analysis", "send")
    /\ calc' = [calc EXCEPT
          !.log = @ \o <<FormatEvent(calc.buy_signals),
                         SendEvent(format_signals(calc.buy_signals), "HTML", "")>>,
          !.pc = "finally"]
    /\ UNCHANGED analyzerVars

InitNotifier ==
    /\ db = [c \in CURRENCIES |-> <<>>]
    /\ Idle
    /\ \E env \in NotifierEnvs :
          \/ calc = [fn |-> "notifier", entry |-> "main", pc |-> "collect",
                     env |-> env, log |-> <<>>, buy_signals |-> <<>>,
                     closed |-> FALSE]
          \/ calc = [fn |-> "notifier", entry |-> "run_buy_signal_analysis",
                     pc |-> "today_rates", env |-> env, log |-> <<>>,
                     buy_signals |-> <<>>, closed |-> FALSE]

NextNotifier ==
    \/ MainCollect
    \/ MainTodayRates
    \/ MainSend
    \/ MainGraph
    \/ NotifierFinally
    \/ BuyTodayRates
    \/ BuyAnalyze
    \/ BuySend

SpecNotifier == InitNotifier /\ [][NextNotifier]_vars

\* the events of the log with operation op, in order
EventsOf(log, op) == LET Is(e) == e.op = op IN SelectSeq(log, Is)

\* a run of main() that got as far as the regular notification has ended
MainRunDone ==
    /\ NotifierAt("main", "done")
    /\ calc.env.collector_ok
    /\ calc.env.rows # <<>>

(***************************************************************************)
(* C24: the order of a notifier run.  One run of main() sends the regular  *)
(* rate notification first, then calls BuySignalAnalyzer.analyze exactly   *)
(* once with the mapping {currency: today's deal_bas_r}; when analyze      *)
(* returns at least one signal the text of format_signals is sent as the   *)
(* last message of the run, and when it returns none format_signals is not *)
(* called and exactly one message is sent.                                 *)
(***************************************************************************)
C24_NotifierRunOrder ==
    MainRunDone =>
        LET log == calc.log
            sends == EventsOf(log, "send_message")
            analyzes == EventsOf(log, "analyze")
            formats == EventsOf(log, "format_signals")
        IN  /\ log # <<>>
            /\ log[1] = SendEvent(RateMessage, "HTML", "")
            /\ Len(analyzes) = 1
            /\ analyzes[1].today_rates = RatesMapping(calc.env.rows)
            /\ calc.env.analyzed # <<>> =>
                  /\ Len(formats) = 1
                  /\ sends[Len(sends)].text = format_signals(calc.env.analyzed)
            /\ calc.env.analyzed = <<>> =>
                  /\ formats = <<>>
                  /\ Len(sends) = 1

\* a run of main() has ended with the regular notification as its only
\* message although the analyzer had a signal to report, and analyze was
\* never called
C24_AnalyzeNeverCalled ==
    /\ MainRunDone
    /\ calc.env.analyzed # <<>>
    /\ ~calc.env.graph_enabled
    /\ calc.log = <<SendEvent(RateMessage, "HTML", "")>>

(***************************************************************************)
(* TelegramSender.send_message.  A call is made with a text, a file_path   *)
(* and the sender's chat id, against a file system that says what the path *)
(* names and a Telegram API that answers each post with ok, with a         *)
(* refusal ("ok": false), with a RequestException or with another          *)
(* exception.  The outcome is the returned bool and the API calls made.    *)
(***************************************************************************)
Whitespace == {" ", "\t", "\n"}

\* text.strip() is empty
IsBlank(text) == \A i \in 1..Len(text) : text[i] \in Whitespace

MessageTexts == {<<>>, <<" ">>, <<" ", "\n", "\t">>, <<"rate">>, <<" ", "rate", " ">>}

\* file_path arguments: None, the empty string, a number, and paths
FilePaths == {"None", "", "int:7", "missing.png", "reports", "graph.png"}

\* what Path(file_path) names in the file system
PathKind(file_path) ==
    CASE file_path = "graph.png" -> "file"
      [] file_path = "reports" -> "directory"
      [] OTHER -> "missing"

ApiAnswers == {"ok", "refused", "RequestException", "ValueError"}

SenderCalls ==
    [text : MessageTexts, file_path : FilePaths, chat_id : {"", "chat"},
     text_answer : ApiAnswers, photo_answer : ApiAnswers]

\* bool(file_path)
Truthy(file_path) == file_path \notin {"None", ""}

_validate_file_path(file_path) ==
    IF file_path = "int:7" THEN None
    ELSE IF PathKind(file_path) = "missing" THEN None
    ELSE IF PathKind(file_path) # "file" THEN None
    ELSE Val(file_path)

\* _send_text and _send_photo: the post is made; True on ok, False on a
\* refusal or a RequestException, any other exception leaves the method
Post(method, answer) ==
    [calls |-> <<method>>,
     out |-> CASE answer = "ok" -> Val(TRUE)
               [] answer = "refused" -> Val(FALSE)
               [] answer = "RequestException" -> Val(FALSE)
               [] OTHER -> Raise(answer)]

Outcome(result_, calls) == [result |-> result_, calls |-> calls]

\* variant: the text is posted before the file path is looked at
send_message_validate_late(c) ==
    IF c.text = <<>> \/ IsBlank(c.text) THEN Outcome(FALSE, <<>>)
    ELSE IF c.chat_id = "" THEN Outcome(FALSE, <<>>)
    ELSE LET t == Post("sendMessage", c.text_answer)
         IN  IF ~Truthy(c.file_path)
             THEN Outcome(IsVal(t.out) /\ t.out.value, t.calls)
             ELSE IF ~(IsVal(t.out) /\ t.out.value) THEN Outcome(FALSE, t.calls)
             ELSE LET validated_path == _validate_file_path(c.file_path)
                  IN  IF IsNone(validated_path) THEN Outcome(FALSE, t.calls)
                      ELSE LET p == Post("sendPhoto", c.photo_answer)
                           IN  Outcome(IsVal(p.out) /\ p.out.value, t.calls \o p.calls)

\* send_message: an exception of a post is caught by the method's own
\* except clause, which returns False
send_message(c) ==
    IF c.text = <<>> \/ IsBlank(c.text) THEN Outcome(FALSE, <<>>)
    ELSE IF c.chat_id = "" THEN Outcome(FALSE, <<>>)
    ELSE IF Truthy(c.file_path)
    THEN LET validated_path == _validate_file_path(c.file_path)
         IN  IF IsNone(validated_path) THEN Outcome(FALSE, <<>>)
             ELSE LET t == Post("sendMessage", c.text_answer)
                  IN  IF ~(IsVal(t.out) /\ t.out.value) THEN Outcome(FALSE, t.calls)
                      ELSE LET p == Post("sendPhoto", c.photo_answer)
                           IN  Outcome(IsVal(p.out) /\ p.out.value, t.calls \o p.calls)
    ELSE LET t == Post("sendMessage", c.text_answer)
         IN  Outcome(IsVal(t.out) /\ t.out.value, t.calls)

SenderSendMessage ==
    /\ calc.fn = "input"
    /\ calc' = [fn |-> "send_message", call |-> calc.call, out |-> send_message(calc.call)]
    /\ UNCHANGED analyzerVars

InitSender ==
    /\ db = [c \in CURRENCIES |-> <<>>]
    /\ Idle
    /\ \E c \in SenderCalls : calc = [fn |-> "input", call |-> c]

NextSender == SenderSendMessage

SpecSender == InitSender /\ [][NextSender]_vars

(***************************************************************************)
(* C25: send_message validates before it sends.  For a text that is empty  *)
(* or only whitespace, and for a non-empty text with a file_path that does *)
(* not name an existing file, it returns False without any Telegram API    *)
(* call; with a valid file the text is posted (sendMessage) before the     *)
(* photo (sendPhoto), and the photo is not posted when posting the text    *)
(* failed.                                                                 *)
(***************************************************************************)
C25_ValidateBeforeSend ==
    calc.fn = "send_message" =>
        LET c == calc.call
            out == calc.out
            no_text == c.text = <<>> \/ IsBlank(c.text)
        IN  /\ no_text => out = Outcome(FALSE, <<>>)
            /\ (~no_text /\ Truthy(c.file_path) /\ PathKind(c.file_path) # "file") =>
                  out = Outcome(FALSE, <<>>)
            /\ (~no_text /\ c.chat_id # "" /\ PathKind(c.file_path) = "file") =>
                  /\ out.calls # <<>>
                  /\ out.calls[1] = "sendMessage"
                  /\ \A i \in 2..Len(out.calls) : out.calls[i] = "sendPhoto"
                  /\ Len(out.calls) <= 2
                  /\ c.text_answer # "ok" => out = Outcome(FALSE, <<"sendMessage">>)
                  /\ c.text_answer = "ok" =>
                        out = Outcome(c.photo_answer = "ok", <<"sendMessage", "sendPhoto">>)

\* text and photo of a valid file, both accepted
C25_Witness ==
    /\ calc.fn = "send_message"
    /\ calc.call.text = <<"rate">>
    /\ calc.call.file_path = "graph.png"
    /\ calc.out = Outcome(TRUE, <<"sendMessage", "sendPhoto">>)

\* a path that names no file: nothing is posted
C25_WitnessMissingFile ==
    /\ calc.fn = "send_message"
    /\ calc.call.text = <<"rate">>
    /\ calc.call.file_path = "missing.png"
    /\ calc.call.chat_id = "chat"
    /\ calc.out = Outcome(FALSE, <<>>)

(***************************************************************************)
(* C26: Wilder smoothing in rsi                                            *)
(***************************************************************************)
RECURSIVE IntPow(_, _)
IntPow(b, e) == IF e = 0 THEN 1 ELSE b * IntPow(b, e - 1)

RECURSIVE SmoothedFrom(_, _, _, _)
\* the contribution of the values after the first period ones to the
\* smoothed average, over the common denominator period^(m + 1), m being
\* the number of those values: value j of m weighs (period-1)^(m-j) * period^j
SmoothedFrom(values, period, j, m) ==
    IF j > m THEN 0
    ELSE IntPow(period - 1, m - j) * IntPow(period, j) * values[period + j]
         + SmoothedFrom(values, period, j + 1, m)

\* period^(m + 1) times the average obtained by seeding with the mean of the
\* first period values and then updating avg = (avg * (period-1) + v) / period
\* once per later value, in order
SmoothedNumerator(values, period) ==
    LET m == Len(values) - period
    IN  IntPow(period - 1, m) * Sum(SliceTo(values, period))
        + SmoothedFrom(values, period, 1, m)

StrictlyDecreasing(prices) ==
    \A i \in 1..(Len(prices) - 1) : prices[i + 1] < prices[i]

\* C26: for n >= period + 1 prices, rsi seeds the average gain and the
\* average loss with the means of the gains and losses of the first period
\* day-over-day deltas, updates each per later delta as
\* (avg * (period - 1) + value) / period, and returns
\* 100 - 100 / (1 + avg_gain / avg_loss) when avg_loss is not zero; a strictly
\* decreasing series gives a value below 10.
C26_WilderSmoothing ==
    (/\ calc.fn = "rsi"
     /\ calc.a >= 1
     /\ Len(calc.prices) >= calc.a + 1) =>
        LET deltas == Changes(calc.prices)
            g == SmoothedNumerator([i \in 1..Len(deltas) |-> Gain(deltas[i])], calc.a)
            l == SmoothedNumerator([i \in 1..Len(deltas) |-> Loss(deltas[i])], calc.a)
        IN  /\ l # 0 =>
                /\ IsVal(calc.out)
                /\ calc.out.value.num >= 0
                /\ calc.out.value.num < calc.out.value.den
                \* out = 100 - 100 / (1 + g / l) = 100 * g / (g + l)
                /\ (calc.out.value.whole * calc.out.value.den + calc.out.value.num)
                       * (g + l) = 100 * g * calc.out.value.den
            /\ StrictlyDecreasing(calc.prices) =>
                /\ IsVal(calc.out)
                /\ calc.out.value.whole < 10

\* the smoothed value 80 where the mean of the last two deltas would give 50
C26_Witness ==
    /\ calc.fn = "rsi"
    /\ calc.a = 2
    /\ calc.prices = <<1, 3, 2, 3>>
    /\ calc.out = Val(MixedOfInt(80))

C26_WitnessDecreasing ==
    /\ calc.fn = "rsi"
    /\ calc.a = 2
    /\ calc.prices = <<3, 2, 1>>
    /\ calc.out = Val(MixedOfInt(0))

(***************************************************************************)
(* C27: insufficient history degrades per check                            *)
(***************************************************************************)
\* the signal types check k can emit
TypesOfCheck(k) ==
    CASE k = 1 -> {"n_week_low"}
      [] k = 2 -> {"golden_cross", "dead_cross"}
      [] k = 3 -> {"rsi_oversold", "rsi_overbought"}
      [] k = 4 -> {"bollinger_low", "bollinger_high"}

\* the fewest observations check k needs
MinObservations(k) ==
    CASE k = 1 -> 10
      [] k = 2 -> 21
      [] k = 3 -> 15
      [] k = 4 -> 20

OfCheck(sigs, k) == SelectSeq(sigs, LAMBDA s : s.signal_type \in TypesOfCheck(k))

\* C27: when the provider returned n observations, analyze_currency returns
\* a list and does not raise; the list is empty if n < 10, has no RSI signal
\* if n < 15, no Bollinger signal if n < 20 and no golden_cross or dead_cross
\* if n < 21; a check whose minimum length is met (and that did not raise)
\* contributes exactly what its body yields; every signal has one of the six
\* signal types, none of them an error type.
C27_InsufficientHistoryPerCheck ==
    (CurrencyDone /\ ~ProviderFailed(currency)) =>
        LET n == Len(rates)
        IN  /\ IsVal(result)
            /\ n < 10 => result.value = <<>>
            /\ \A k \in 1..Len(CHECKS) :
                  /\ n < MinObservations(k) => OfCheck(result.value, k) = <<>>
                  /\ (n >= MinObservations(k) /\ k \notin FailedChecks(currency)) =>
                        OfCheck(result.value, k) =
                            Contribution(k, currency, today_rate, rates)
            /\ \A i \in 1..Len(result.value) :
                  result.value[i].signal_type
                      \in UNION {TypesOfCheck(k) : k \in 1..Len(CHECKS)}

\* 15 observations: the N-week-low and the RSI check are evaluated and emit
\* their signals, the other two checks are skipped
C27_Witness ==
    /\ CurrencyDone
    /\ ~ProviderFailed(currency)
    /\ FailedChecks(currency) = {}
    /\ Len(rates) = 15
    /\ IsVal(result)
    /\ Len(result.value) = 2
    /\ result.value[1].signal_type = "n_week_low"
    /\ result.value[2].signal_type = "rsi_oversold"

\* 9 observations and a rate below all of them: no signal at all
C27_WitnessNine ==
    /\ CurrencyDone
    /\ ~ProviderFailed(currency)
    /\ Len(rates) = 9
    /\ \A i \in 1..Len(rates) : today_rate < rates[i]
    /\ result = Val(<<>>)

(***************************************************************************)
(* C28: the lines of a currency block                                      *)
(***************************************************************************)
\* the rates of the formatted lists as a reader expects them: a comma
\* between thousands and hundreds, two decimals
RateText(r) ==
    CASE r = 950 -> <<"9", "5", "0", ".", "0", "0">>
      [] r = 1425 -> <<"1", ",", "4", "2", "5", ".", "0", "0">>

\* the glyph of a signal type, the pin for a type outside the mapping
GlyphOf(t) == IF t \in DOMAIN SIGNAL_EMOJI THEN SIGNAL_EMOJI[t] ELSE "PIN"

\* C28: the block of a currency is one header line that contains the
\* currency code and the current_rate of the first signal of the group,
\* with thousands separator and two decimals, followed by one line per
\* signal of the group, in order, made of the glyph of its signal_type (the
\* fallback glyph for a type outside the mapping), a space and the stored
\* message unchanged, and nothing else up to the blank line or the end;
\* hence, when the signals of a currency share one current_rate, the
\* currency and the formatted rate of every input signal occur in the output.
C28_CurrencyBlockLines ==
    (Formatted /\ calc.signal_list # <<>>) =>
        LET lines == Lines(calc.out)
            sl == calc.signal_list
        IN  /\ \A c \in CurrenciesOf(sl) :
                  LET at == IndicesOf(sl, c)
                  IN  \E h \in 2..Len(lines) :
                         /\ lines[h - 1] = <<>>
                         /\ Contains(lines[h], <<c>>)
                         /\ Contains(lines[h], <<" ">> \o RateText(sl[at[1]].current_rate)
                                               \o <<"WON">>)
                         /\ h + Len(at) <= Len(lines)
                         /\ \A j \in 1..Len(at) :
                               lines[h + j] = <<GlyphOf(sl[at[j]].signal_type), " ">>
                                              \o sl[at[j]].message
                         /\ h + Len(at) < Len(lines) => lines[h + Len(at) + 1] = <<>>
            /\ \A i \in 1..Len(sl) :
                  (\A j \in 1..Len(sl) :
                      sl[j].currency = sl[i].currency =>
                          sl[j].current_rate = sl[i].current_rate) =>
                     /\ Contains(calc.out, <<sl[i].currency>>)
                     /\ Contains(calc.out, RateText(sl[i].current_rate))

\* two USD signals with different rates, the second of a type outside the
\* mapping: the header shows the first rate only and the second signal line
\* carries the fallback glyph
C28_Witness ==
    /\ Formatted
    /\ Len(calc.signal_list) = 2
    /\ calc.signal_list[1].currency = "USD"
    /\ calc.signal_list[2].currency = "USD"
    /\ calc.signal_list[1].signal_type = "n_week_low"
    /\ calc.signal_list[2].signal_type = "custom"
    /\ calc.signal_list[1].current_rate = 1425
    /\ calc.signal_list[2].current_rate = 950
    /\ LET lines == Lines(calc.out)
       IN  /\ Len(lines) = 5
           /\ Contains(lines[3], RateText(1425))
           /\ ~Contains(calc.out, RateText(950))
           /\ lines[4][1] = "CHART_DOWN"
           /\ lines[5] = <<"PIN", " ">> \o calc.signal_list[2].message

(***************************************************************************)
(* C29: the shape of a result of analyze_currency                          *)
(***************************************************************************)
\* the place of a signal type in the order of the checks
RankOfType(t) ==
    CASE t = "n_week_low" -> 1
      [] t \in {"golden_cross", "dead_cross"} -> 2
      [] t \in {"rsi_oversold", "rsi_overbought"} -> 3
      [] t \in {"bollinger_low", "bollinger_high"} -> 4
      [] OTHER -> 0

\* at most one signal per check, in the order of the checks
ResultShape(sigs) ==
    /\ \A i \in 1..Len(sigs) : RankOfType(sigs[i].signal_type) \in 1..4
    /\ \A i, j \in 1..Len(sigs) :
          i < j => RankOfType(sigs[i].signal_type) < RankOfType(sigs[j].signal_type)
    /\ \A pair \in {{"golden_cross", "dead_cross"}, {"rsi_oversold", "rsi_overbought"},
                    {"bollinger_low", "bollinger_high"}} :
          ~(pair \subseteq {sigs[i].signal_type : i \in 1..Len(sigs)})
    /\ Len(sigs) <= 4

\* C29: the list analyze_currency returns (and the list it is building, at
\* every step) holds at most one signal per check, in the order N-week-low,
\* MA cross, RSI, Bollinger; it never holds both golden_cross and
\* dead_cross, both rsi_oversold and rsi_overbought, or both bollinger_low
\* and bollinger_high; it has at most four signals, and analyze returns at
\* most eight.
C29_ResultShape ==
    /\ ResultShape(signals)
    /\ \A c \in CURRENCIES : IsVal(returned[c]) => ResultShape(returned[c].value)
    /\ (entry = "analyze_currency" /\ IsVal(result)) => ResultShape(result.value)
    /\ (entry = "analyze" /\ IsVal(result)) => Len(result.value) <= 8

\* analyze returned eight signals: four of USD, then four of JPY(100)
C29_Witness ==
    /\ AnalyzeDone
    /\ IsVal(result)
    /\ Len(result.value) = 8
    /\ Len(returned["USD"].value) = 4
    /\ Len(returned["JPY(100)"].value) = 4
    /\ [i \in 1..4 |-> result.value[i].signal_type]
          = <<"n_week_low", "golden_cross", "rsi_overbought", "bollinger_low">>

\* a direct call of analyze_currency returned four signals
C29_WitnessCurrency ==
    /\ CurrencyDone
    /\ IsVal(result)
    /\ Len(result.value) = 4

(***************************************************************************)
(* C30: the history query precedes the checks and is outside their guards  *)
(***************************************************************************)
\* the newest n rows of a table column kept oldest first, oldest first
NewestRows(column, n) ==
    SubSeq(column, Max2(Len(column) - n, 0) + 1, Len(column))

\* the tracked currencies analyze has called analyze_currency for so far
CalledSoFar ==
    LET upto == IF pc = "loop" \/ pc = "done" THEN idx - 1 ELSE idx
        Is(i) == i <= upto /\ HasKey(today_rates, TARGET_CURRENCIES[i])
    IN  SelectSeq([i \in 1..Len(TARGET_CURRENCIES) |-> i], Is)

InCheckOrAfter == pc \in {CHECKS[k] : k \in 1..Len(CHECKS)} \cup {"return"}

\* C30: analyze_currency queries the provider exactly once per call, for 21
\* rates of its currency, before any check runs, and works on the newest 21
\* rows oldest first; when the query raises, the exception leaves
\* analyze_currency and no check runs: a direct caller receives it, analyze
\* absorbs it at its per-currency boundary, returns a list and the result holds
\* no signal of that currency; a currency that is no key of today_rates is
\* never queried.
C30_HistoryQueryOutsideGuards ==
    \* one query per call, each for 21 rates of the called currency
    /\ entry = "analyze" =>
          /\ Len(queries) = Len(CalledSoFar) - (IF pc = "get_recent_rates" THEN 1 ELSE 0)
          /\ \A q \in 1..Len(queries) :
                /\ queries[q] = <<TARGET_CURRENCIES[CalledSoFar[q]], 21>>
                /\ queries[q][1] \in Keys(today_rates)
    /\ entry = "analyze_currency" =>
          queries = IF pc = "get_recent_rates" THEN <<>> ELSE <<<<currency, 21>>>>
    \* before the query nothing was checked
    /\ pc = "get_recent_rates" =>
          /\ signals = <<>>
          /\ \A k \in 1..Len(CHECKS) : <<currency, CHECKS[k]>> \notin raised
    \* the checks work on the answer of the query
    /\ InCheckOrAfter =>
          /\ ~ProviderFailed(currency)
          /\ queries[Len(queries)] = <<currency, 21>>
          /\ rates = NewestRows(db[currency], 21)
    \* a failed query ends the call
    /\ \A c \in CURRENCIES :
          ProviderFailed(c) =>
             /\ FailedChecks(c) = {}
             /\ entry = "analyze" =>
                   /\ returned[c] = Raise("DatabaseError")
                   /\ OfCurrency(all_signals, c) = <<>>
                   /\ pc = "done" =>
                         /\ IsVal(result)
                         /\ OfCurrency(result.value, c) = <<>>
             /\ entry = "analyze_currency" =>
                   /\ c = currency
                   /\ pc = "done"
                   /\ result = Raise("DatabaseError")
                   /\ signals = <<>>

\* the query for USD raised; analyze went on, queried JPY(100) and returned
\* the signals of JPY(100) only
C30_Witness ==
    /\ AnalyzeDone
    /\ ProviderFailed("USD")
    /\ ~ProviderFailed("JPY(100)")
    /\ queries = <<<<"USD", 21>>, <<"JPY(100)", 21>>>>
    /\ Len(db["JPY(100)"]) = 23
    /\ IsVal(result)
    /\ result.value # <<>>
    /\ result.value = returned["JPY(100)"].value

\* a direct caller of analyze_currency received the exception of the query
C30_WitnessDirect ==
    /\ CurrencyDone
    /\ ProviderFailed(currency)
    /\ result = Raise("DatabaseError")
=============================================================================
